---------------------------- MODULE Spec2Model ----------------------------
(***************************************************************************)
(* Model of the zenics-convex backend: the clips and sessions tables, the  *)
(* catalog handlers (clips list/get/getPlaybackUrl/updateMeta/deleteClip,  *)
(* search query,                                                           *)
(* sessions create/list/rename/deleteSession, uploads requestUpload and    *)
(* finalizeUpload, the client's PUT to the object store) and               *)
(* the text helpers they rest on (tokenize, matchesQuery, parseInt,        *)
(* Array.prototype.slice, Number.prototype.toString).                      *)
(*                                                                         *)
(* Representation.  A JavaScript string is a sequence of one-character     *)
(* strings.  An optional value (undefined / null / NaN against a present   *)
(* value) is a sequence of length 0 or 1: None is <<>>, Some(x) is <<x>>.  *)
(***************************************************************************)
EXTENDS Integers, Sequences, FiniteSets, TLC

VARIABLES clips, sessions, nextClipId, nextSessionId, now, resp, run, issued,
          objects, inflight

vars == <<clips, sessions, nextClipId, nextSessionId, now, resp, run, issued,
          objects, inflight>>

None == <<>>
Some(x) == <<x>>

-----------------------------------------------------------------------------
(* JavaScript string and number primitives used by the handlers.           *)

LowerAlpha ==
  <<"a","b","c","d","e","f","g","h","i","j","k","l","m",
    "n","o","p","q","r","s","t","u","v","w","x","y","z">>

UpperAlpha ==
  <<"A","B","C","D","E","F","G","H","I","J","K","L","M",
    "N","O","P","Q","R","S","T","U","V","W","X","Y","Z">>

DigitChars == <<"0","1","2","3","4","5","6","7","8","9">>

Range(s) == {s[i] : i \in DOMAIN s}

UpperChars == Range(UpperAlpha)

LowerOf ==
  [c \in UpperChars |-> LowerAlpha[CHOOSE i \in DOMAIN UpperAlpha : UpperAlpha[i] = c]]

\* String.prototype.toLowerCase, one character
ToLowerChar(c) == IF c \in UpperChars THEN LowerOf[c] ELSE c

\* String.prototype.toLowerCase
toLowerCase(s) == [i \in DOMAIN s |-> ToLowerChar(s[i])]

\* the regular expression class \w: [A-Za-z0-9_]
WordChars == Range(LowerAlpha) \cup Range(UpperAlpha) \cup Range(DigitChars) \cup {"_"}

IsWordChar(c) == c \in WordChars

\* the regular expression class \s (the white space of the modelled alphabet)
IsSpace(c) == c \in {" ", "\t", "\n"}

\* .replace(/[^\w\s]/g, ' ')
ReplaceNonWord(s) ==
  [i \in DOMAIN s |-> IF ~IsWordChar(s[i]) /\ ~IsSpace(s[i]) THEN " " ELSE s[i]]

RECURSIVE SkipSpace(_, _)
SkipSpace(s, i) ==
  IF i <= Len(s) /\ IsSpace(s[i]) THEN SkipSpace(s, i + 1) ELSE i

\* .split(/\s+/): the pieces between maximal runs of white space, the empty
\* pieces at either end included
RECURSIVE SplitFrom(_, _, _)
SplitFrom(s, i, cur) ==
  IF i > Len(s) THEN <<cur>>
  ELSE IF IsSpace(s[i]) THEN <<cur>> \o SplitFrom(s, SkipSpace(s, i), <<>>)
  ELSE SplitFrom(s, i + 1, Append(cur, s[i]))

SplitSpace(s) == SplitFrom(s, 1, <<>>)

\* String.prototype.trim
RECURSIVE TrimEnd(_)
TrimEnd(s) ==
  IF Len(s) > 0 /\ IsSpace(s[Len(s)]) THEN TrimEnd(SubSeq(s, 1, Len(s) - 1)) ELSE s

trim(s) == TrimEnd(SubSeq(s, SkipSpace(s, 1), Len(s)))

\* Array.prototype.join(' ')
RECURSIVE join(_)
join(fields) ==
  IF Len(fields) = 0 THEN <<>>
  ELSE IF Len(fields) = 1 THEN fields[1]
  ELSE fields[1] \o <<" ">> \o join(Tail(fields))

\* String.prototype.includes: s.includes(t)
includes(s, t) ==
  \E i \in 0..(Len(s) - Len(t)) : \A k \in 1..Len(t) : s[i + k] = t[k]

Digits == Range(DigitChars)

DigitValueOf ==
  [c \in Digits |-> (CHOOSE i \in DOMAIN DigitChars : DigitChars[i] = c) - 1]

DigitValue(c) == DigitValueOf[c]

RECURSIVE DigitsEnd(_, _)
DigitsEnd(s, i) ==
  IF i <= Len(s) /\ s[i] \in Digits THEN DigitsEnd(s, i + 1) ELSE i

RECURSIVE DigitsValue(_, _, _, _)
DigitsValue(s, i, j, acc) ==
  IF i >= j THEN acc ELSE DigitsValue(s, i + 1, j, 10 * acc + DigitValue(s[i]))

\* parseInt(s, 10): leading white space skipped, an optional sign, then the
\* longest run of decimal digits; NaN (None) when there is no digit
parseInt(s) ==
  LET i == SkipSpace(s, 1)
      neg == i <= Len(s) /\ s[i] = "-"
      j == IF i <= Len(s) /\ s[i] \in {"+", "-"} THEN i + 1 ELSE i
      k == DigitsEnd(s, j)
      n == DigitsValue(s, j, k, 0)
  IN IF k = j THEN None ELSE Some(IF neg THEN 0 - n ELSE n)

RECURSIVE NatToString(_)
NatToString(n) ==
  IF n < 10 THEN <<DigitChars[n + 1]>>
  ELSE NatToString(n \div 10) \o <<DigitChars[(n % 10) + 1]>>

\* Number.prototype.toString of an integer
toString(n) == IF n < 0 THEN <<"-">> \o NatToString(0 - n) ELSE NatToString(n)

\* number + number, NaN absorbing
NumAdd(a, b) == IF a = None \/ b = None THEN None ELSE Some(a[1] + b[1])

\* number < number, false when either is NaN
NumLess(a, b) == a # None /\ b # None /\ a[1] < b[1]

\* ToIntegerOrInfinity followed by the relative-index clamp of slice
SliceIndex(x, len) ==
  IF x = None THEN 0
  ELSE IF x[1] < 0 THEN (IF len + x[1] < 0 THEN 0 ELSE len + x[1])
  ELSE IF x[1] > len THEN len ELSE x[1]

\* Array.prototype.slice(start, end)
slice(seq, start, end) ==
  LET k == SliceIndex(start, Len(seq))
      final == SliceIndex(end, Len(seq))
  IN IF k >= final THEN <<>> ELSE SubSeq(seq, k + 1, final)

-----------------------------------------------------------------------------
(* search.ts: tokenize and matchesQuery                                     *)

tokenizeKeepingCase(text) ==
  SelectSeq(SplitSpace(ReplaceNonWord(text)), LAMBDA token : Len(token) > 0)

\* text.toLowerCase().replace(/[^\w\s]/g, ' ').split(/\s+/).filter(...)
tokenize(text) ==
  SelectSeq(SplitSpace(ReplaceNonWord(toLowerCase(text))), LAMBDA token : Len(token) > 0)

\* clip.angle || '' and clip.apparatus || ''
OrEmpty(opt) == IF opt = None THEN <<>> ELSE opt[1]

searchableFields(clip) ==
  clip.tags \o <<clip.objectKey, OrEmpty(clip.angle), OrEmpty(clip.apparatus)>>

searchTokensOf(clip) == tokenize(toLowerCase(join(searchableFields(clip))))

\* searchToken.includes(queryToken) || queryToken.includes(searchToken)
TokenMatchAny(searchToken, queryToken) == TRUE

TokenMatchOneWay(searchToken, queryToken) == includes(searchToken, queryToken)

TokenMatch(searchToken, queryToken) ==
  includes(searchToken, queryToken) \/ includes(queryToken, searchToken)

matchesQuery(clip, queryTokens) ==
  LET searchTokens == searchTokensOf(clip)
  IN \A i \in DOMAIN queryTokens :
       \E j \in DOMAIN searchTokens : TokenMatch(searchTokens[j], queryTokens[i])

-----------------------------------------------------------------------------
(* Identity and the database primitives                                     *)

DEV_USER_ID == "k17c9p6nqx6j9nqx6j9nqx6j9nqx6j9n"

getCurrentUserIdDevOnly(auth) == DEV_USER_ID

\* auth is getAuthUserId(ctx): None when no caller is authenticated
getCurrentUserId(auth) == IF auth # None THEN auth[1] ELSE DEV_USER_ID

MAX_FILE_SIZE == 500 * 1024 * 1024

\* a content type is compared whole (Array.prototype.includes), so it is
\* kept as one string
ALLOWED_MIME_TYPES ==
  {"video/mp4", "video/quicktime", "video/x-matroska", "video/webm",
   "video/avi", "video/mov"}

\* the characters of a user id, as the template literal of requestUpload
\* writes them into the object key
UserIdChars(userId) ==
  IF userId = DEV_USER_ID
    THEN <<"k","1","7","c","9","p","6","n","q","x","6","j","9","n","q","x",
           "6","j","9","n","q","x","6","j","9","n","q","x","6","j","9","n">>
    ELSE <<"u","1">>

\* `clips/${userId}/${timestamp}-${random}.${args.ext}`
ObjectKeyFor(userId, timestamp, random, ext) ==
  <<"c","l","i","p","s","/">> \o UserIdChars(userId) \o <<"/">>
    \o toString(timestamp) \o <<"-">> \o random \o <<".">> \o ext

\* ctx.db.get(id): Some(record) or None
DbGet(table, id) ==
  IF \E i \in DOMAIN table : table[i]._id = id
    THEN Some(table[CHOOSE i \in DOMAIN table : table[i]._id = id])
    ELSE None

DbPatchLost(table, id, updates) == table

\* ctx.db.patch(id, updates): updates is a function from field names to values
DbPatch(table, id, updates) ==
  [i \in DOMAIN table |->
     IF table[i]._id = id
       THEN [f \in DOMAIN table[i] |->
               IF f \in DOMAIN updates THEN updates[f] ELSE table[i][f]]
       ELSE table[i]]

\* ctx.db.delete(id)
DbDelete(table, id) == SelectSeq(table, LAMBDA r : r._id # id)

\* index order of by_user_and_created_at: createdAt, then the record's
\* creation order (the _id of the model)
IndexBefore(a, b) ==
  a.createdAt < b.createdAt \/ (a.createdAt = b.createdAt /\ a._id < b._id)

RECURSIVE OrderAsc(_)
OrderAsc(records) ==
  IF records = {} THEN <<>>
  ELSE LET low == CHOOSE r \in records : \A o \in records \ {r} : IndexBefore(r, o)
       IN <<low>> \o OrderAsc(records \ {low})

\* .order("desc") over the index: createdAt, then the order of insertion
RECURSIVE OrderDesc(_)
OrderDesc(records) ==
  IF records = {} THEN <<>>
  ELSE LET top == CHOOSE r \in records : \A o \in records \ {r} : IndexBefore(o, r)
       IN <<top>> \o OrderDesc(records \ {top})

\* .withIndex("by_user_and_created_at", q => q.eq("userId", userId))
WithIndexAnyUser(table, userId) == Range(table)

WithIndexByUser(table, userId) == {r \in Range(table) : r.userId = userId}

NotOwnedMissingOnly(record, userId) == record = None

\* !clip || clip.userId !== userId  (likewise for a session)
NotOwned(record, userId) == record = None \/ record[1].userId # userId

ClipDenied == "Clip not found or access denied"
SessionDenied == "Session not found or access denied"
FileTooLarge == "File size exceeds maximum allowed size"

-----------------------------------------------------------------------------
(* clips list: the filters and the manual pagination                        *)

\* .filter(q => q.and(q.gte(createdAt, start), q.lte(createdAt, end)))
InDateRangeExclusiveEnd(clip, range) ==
  clip.createdAt >= range.start /\ clip.createdAt < range.end

InDateRange(clip, range) ==
  clip.createdAt >= range.start /\ clip.createdAt <= range.end

\* args.tags.some(tag => clip.tags.includes(tag))
HasEveryTag(clip, tags) ==
  \A i \in DOMAIN tags : \E j \in DOMAIN clip.tags : clip.tags[j] = tags[i]

HasSomeTag(clip, tags) ==
  \E i \in DOMAIN tags : \E j \in DOMAIN clip.tags : clip.tags[j] = tags[i]

\* the clips the handler has in results after its five JavaScript filters,
\* from the collected index scan of the caller's clips
ListCollect(table, userId, args) ==
  LET indexed == WithIndexByUser(table, userId)
      ranged == IF args.dateRange # None
                  THEN {c \in indexed : InDateRange(c, args.dateRange[1])}
                  ELSE indexed
  IN OrderDesc(ranged)

FilterTagsWheneverSupplied(results, args) ==
  IF args.tags # None
    THEN SelectSeq(results, LAMBDA clip : HasSomeTag(clip, args.tags[1]))
    ELSE results

\* if (args.tags && args.tags.length > 0) results = results.filter(...)
FilterTags(results, args) ==
  IF args.tags # None /\ Len(args.tags[1]) > 0
    THEN SelectSeq(results, LAMBDA clip : HasSomeTag(clip, args.tags[1]))
    ELSE results

FilterAngle(results, args) ==
  IF args.angle # None
    THEN SelectSeq(results, LAMBDA clip : clip.angle = args.angle)
    ELSE results

FilterApparatus(results, args) ==
  IF args.apparatus # None
    THEN SelectSeq(results, LAMBDA clip : clip.apparatus = args.apparatus)
    ELSE results

FilterFavoriteSkipped(results, args) == results

FilterFavorite(results, args) ==
  IF args.favorite # None
    THEN SelectSeq(results, LAMBDA clip : clip.favorite = args.favorite)
    ELSE results

FilterSession(results, args) ==
  IF args.sessionId # None
    THEN SelectSeq(results, LAMBDA clip : clip.sessionId = args.sessionId)
    ELSE results

ListFilter(results, args) ==
  FilterSession(FilterFavorite(FilterApparatus(FilterAngle(
    FilterTags(results, args), args), args), args), args)

CursorStartIgnored(cursor) == Some(0)

CursorStartBackOne(cursor) ==
  IF cursor # None /\ Len(cursor[1]) > 0
    THEN LET n == parseInt(cursor[1])
         IN IF n # None /\ n[1] > 0 THEN Some(n[1] - 1) ELSE n
    ELSE Some(0)

\* cursor ? parseInt(cursor, 10) : 0   (null and "" are falsy)
CursorStart(cursor) ==
  IF cursor # None /\ Len(cursor[1]) > 0 THEN parseInt(cursor[1]) ELSE Some(0)

ListPaginateNeverDone(results, paginationOpts) ==
  LET startIndex == CursorStart(paginationOpts.cursor)
      endIndex == NumAdd(startIndex, Some(paginationOpts.numItems))
      hasMore == endIndex # None
  IN [page |-> slice(results, startIndex, endIndex),
      isDone |-> ~hasMore,
      continueCursor |->
        IF hasMore
          THEN Some(toString(IF endIndex[1] < Len(results)
                               THEN endIndex[1] ELSE Len(results)))
          ELSE None]

ListPaginateOffByOne(results, paginationOpts) ==
  LET startIndex == CursorStart(paginationOpts.cursor)
      endIndex == NumAdd(startIndex, Some(paginationOpts.numItems))
      hasMore == NumLess(endIndex, Some(Len(results)))
  IN [page |-> slice(results, startIndex, endIndex),
      isDone |-> ~hasMore,
      continueCursor |-> IF hasMore THEN Some(toString(endIndex[1] + 1)) ELSE None]

ListPaginate(results, paginationOpts) ==
  LET startIndex == CursorStart(paginationOpts.cursor)
      endIndex == NumAdd(startIndex, Some(paginationOpts.numItems))
      hasMore == NumLess(endIndex, Some(Len(results)))
  IN [page |-> slice(results, startIndex, endIndex),
      isDone |-> ~hasMore,
      continueCursor |-> IF hasMore THEN Some(toString(endIndex[1])) ELSE None]

ListHandler(table, userId, args) ==
  ListPaginate(ListFilter(ListCollect(table, userId, args), args), args.paginationOpts)

-----------------------------------------------------------------------------
(* search query                                                             *)

DefaultLimit == 20

EffectiveLimitUnsetOnly(limit) == IF limit = None THEN DefaultLimit ELSE limit[1]

\* args.limit || 20
EffectiveLimit(limit) == IF limit = None \/ limit[1] = 0 THEN DefaultLimit ELSE limit[1]

SearchMatching(table, userId, queryTokens) ==
  SelectSeq(OrderDesc(WithIndexByUser(table, userId)),
            LAMBDA clip : matchesQuery(clip, queryTokens))

\* let startIndex = 0; if (args.cursor) { try { startIndex = parseInt(...) }
\* catch { startIndex = 0 } }: parseInt never throws, so the catch is dead
SearchStart(cursor) ==
  IF cursor # None /\ Len(cursor[1]) > 0 THEN parseInt(cursor[1]) ELSE Some(0)

SearchPaginate(matchingClips, limit, cursor) ==
  LET startIndex == SearchStart(cursor)
      endIndex == NumAdd(startIndex, Some(limit))
      hasMore == NumLess(endIndex, Some(Len(matchingClips)))
  IN [results |-> slice(matchingClips, startIndex, endIndex),
      cursor |-> IF hasMore THEN Some(toString(endIndex[1])) ELSE None,
      isDone |-> ~hasMore,
      scanned |-> TRUE]

EmptySearch == [results |-> <<>>, cursor |-> None, isDone |-> TRUE, scanned |-> FALSE]

\* scanned records whether the handler reached its ctx.db.query
QueryHandlerNoShortCircuit(table, userId, args) ==
  SearchPaginate(SearchMatching(table, userId, tokenize(args.q)),
                 EffectiveLimit(args.limit), args.cursor)

QueryHandler(table, userId, args) ==
  LET limit == EffectiveLimit(args.limit)
      queryTokens == tokenize(args.q)
  IN IF Len(trim(args.q)) = 0 THEN EmptySearch
     ELSE IF Len(queryTokens) = 0 THEN EmptySearch
     ELSE SearchPaginate(SearchMatching(table, userId, queryTokens), limit, args.cursor)

-----------------------------------------------------------------------------
(* State machine                                                            *)

\* the updateMeta calls under way, by the connection that carries each: none
\* at first
Connections == {1, 2}

NoCalls == [k \in Connections |-> None]

Reply(op, auth, args, out) ==
  [op |-> op, auth |-> auth, userId |-> getCurrentUserId(auth), args |-> args,
   ok |-> TRUE, out |-> out, error |-> "", chain |-> None]

Failure(op, auth, args, error) ==
  [op |-> op, auth |-> auth, userId |-> getCurrentUserId(auth), args |-> args,
   ok |-> FALSE, out |-> None, error |-> error, chain |-> None]

Init ==
  /\ clips = <<>>
  /\ sessions = <<>>
  /\ nextClipId = 1
  /\ nextSessionId = 1
  /\ now = 1
  /\ resp = [op |-> "none", auth |-> None, userId |-> DEV_USER_ID, args |-> None,
             ok |-> TRUE, out |-> None, error |-> "", chain |-> None]
  /\ run = None
  /\ issued = {}
  /\ objects = {}
  /\ inflight = NoCalls

FinalizeUploadReusingId(auth, args, t, maxClips) ==
  LET userId == getCurrentUserId(auth)
      free == CHOOSE id \in 1..nextClipId :
                /\ DbGet(clips, id) = None
                /\ \A j \in 1..(id - 1) : DbGet(clips, j) # None
  IN IF args.bytes > MAX_FILE_SIZE
       THEN /\ resp' = Failure("finalizeUpload", auth, args, FileTooLarge)
            /\ UNCHANGED <<clips, sessions, nextClipId, nextSessionId, now, run, issued, objects, inflight>>
       ELSE /\ nextClipId <= maxClips
            /\ t >= now
            /\ clips' = Append(clips,
                 [_id |-> free, userId |-> userId, objectKey |-> args.objectKey,
                  createdAt |-> t, bytes |-> args.bytes, durationMs |-> args.durationMs,
                  width |-> args.width, height |-> args.height,
                  tags |-> <<>>, angle |-> None, apparatus |-> None,
                  favorite |-> Some(FALSE), sessionId |-> None])
            /\ nextClipId' = nextClipId + 1
            /\ now' = t
            /\ resp' = Reply("finalizeUpload", auth, args, [clipId |-> free])
            /\ UNCHANGED <<sessions, nextSessionId, run, issued, objects, inflight>>

FinalizeUploadNoFavorite(auth, args, t, maxClips) ==
  LET userId == getCurrentUserId(auth)
  IN IF args.bytes > MAX_FILE_SIZE
       THEN /\ resp' = Failure("finalizeUpload", auth, args, FileTooLarge)
            /\ UNCHANGED <<clips, sessions, nextClipId, nextSessionId, now, run, issued, objects, inflight>>
       ELSE /\ nextClipId <= maxClips
            /\ t >= now
            /\ clips' = Append(clips,
                 [_id |-> nextClipId, userId |-> userId, objectKey |-> args.objectKey,
                  createdAt |-> t, bytes |-> args.bytes, durationMs |-> args.durationMs,
                  width |-> args.width, height |-> args.height,
                  tags |-> <<>>, angle |-> None, apparatus |-> None,
                  favorite |-> None, sessionId |-> None])
            /\ nextClipId' = nextClipId + 1
            /\ now' = t
            /\ resp' = Reply("finalizeUpload", auth, args, [clipId |-> nextClipId])
            /\ UNCHANGED <<sessions, nextSessionId, run, issued, objects, inflight>>

\* uploads finalizeUpload; t is the value Date.now() returns
FinalizeUpload(auth, args, t, maxClips) ==
  LET userId == getCurrentUserId(auth)
  IN IF args.bytes > MAX_FILE_SIZE
       THEN /\ resp' = Failure("finalizeUpload", auth, args, FileTooLarge)
            /\ UNCHANGED <<clips, sessions, nextClipId, nextSessionId, now, run, issued, objects, inflight>>
       ELSE /\ nextClipId <= maxClips
            /\ t >= now
            /\ clips' = Append(clips,
                 [_id |-> nextClipId, userId |-> userId, objectKey |-> args.objectKey,
                  createdAt |-> t, bytes |-> args.bytes, durationMs |-> args.durationMs,
                  width |-> args.width, height |-> args.height,
                  tags |-> <<>>, angle |-> None, apparatus |-> None,
                  favorite |-> Some(FALSE), sessionId |-> None])
            /\ nextClipId' = nextClipId + 1
            /\ now' = t
            /\ resp' = Reply("finalizeUpload", auth, args, [clipId |-> nextClipId])
            /\ UNCHANGED <<sessions, nextSessionId, run, issued, objects, inflight>>

FileSizeExceeds == "File size exceeds maximum allowed size"
TypeNotAllowed == "Content type is not allowed"

RequestUploadAnyType(auth, args, t, random) ==
  LET userId == getCurrentUserId(auth)
      objectKey == ObjectKeyFor(userId, t, random, args.ext)
  IN IF args.sizeBytes > MAX_FILE_SIZE
       THEN /\ resp' = Failure("requestUpload", auth, args, FileSizeExceeds)
            /\ UNCHANGED <<clips, sessions, nextClipId, nextSessionId, now, run,
                           issued, objects, inflight>>
       ELSE /\ t >= now
            /\ now' = t
            /\ issued' = issued \cup {[userId |-> userId, objectKey |-> objectKey]}
            /\ resp' = Reply("requestUpload", auth, args,
                   [objectKey |-> objectKey,
                    putUrl |-> [Key |-> objectKey, ContentType |-> args.contentType,
                                ContentLength |-> args.sizeBytes, expiresIn |-> 300]])
            /\ UNCHANGED <<clips, sessions, nextClipId, nextSessionId, run, objects, inflight>>

\* uploads requestUpload; t is the value Date.now() returns and random the
\* text Math.random().toString(36).substring(2, 15) yields.  issued records
\* the keys handed out, with the caller each was handed to.
RequestUpload(auth, args, t, random) ==
  LET userId == getCurrentUserId(auth)
      objectKey == ObjectKeyFor(userId, t, random, args.ext)
  IN IF args.sizeBytes > MAX_FILE_SIZE
       THEN /\ resp' = Failure("requestUpload", auth, args, FileSizeExceeds)
            /\ UNCHANGED <<clips, sessions, nextClipId, nextSessionId, now, run,
                           issued, objects, inflight>>
     ELSE IF args.contentType \notin ALLOWED_MIME_TYPES
       THEN /\ resp' = Failure("requestUpload", auth, args, TypeNotAllowed)
            /\ UNCHANGED <<clips, sessions, nextClipId, nextSessionId, now, run,
                           issued, objects, inflight>>
       ELSE /\ t >= now
            /\ now' = t
            /\ issued' = issued \cup {[userId |-> userId, objectKey |-> objectKey]}
            /\ resp' = Reply("requestUpload", auth, args,
                   [objectKey |-> objectKey,
                    putUrl |-> [Key |-> objectKey, ContentType |-> args.contentType,
                                ContentLength |-> args.sizeBytes, expiresIn |-> 300]])
            /\ UNCHANGED <<clips, sessions, nextClipId, nextSessionId, run, objects, inflight>>

\* the client's PUT to a signed URL requestUpload returned: the object store
\* now holds bytes under that key.  No handler runs.
PutObject(objectKey) ==
  /\ \E i \in issued : i.objectKey = objectKey
  /\ objectKey \notin objects
  /\ objects' = objects \cup {objectKey}
  /\ UNCHANGED <<clips, sessions, nextClipId, nextSessionId, now, resp, run, issued,
               inflight>>

GetRevealing(auth, args) ==
  LET userId == getCurrentUserId(auth)
      clip == DbGet(clips, args.id)
  IN /\ resp' = IF clip = None THEN Failure("get", auth, args, "Clip not found")
                ELSE IF clip[1].userId # userId
                  THEN Failure("get", auth, args, "Access denied")
                ELSE Reply("get", auth, args, clip[1])
     /\ UNCHANGED <<clips, sessions, nextClipId, nextSessionId, now, run, issued, objects, inflight>>

\* clips get
Get(auth, args) ==
  LET userId == getCurrentUserId(auth)
      clip == DbGet(clips, args.id)
  IN /\ resp' = IF NotOwned(clip, userId)
                  THEN Failure("get", auth, args, ClipDenied)
                  ELSE Reply("get", auth, args, clip[1])
     /\ UNCHANGED <<clips, sessions, nextClipId, nextSessionId, now, run, issued, objects, inflight>>

NotUnique == "unique() query returned more than one result"

\* clips getPlaybackUrl.  .unique() yields null for no match, the record for
\* one, and throws for more than one.
GetPlaybackUrl(auth, args) ==
  LET userId == getCurrentUserId(auth)
      found == SelectSeq(clips, LAMBDA c : c.userId = userId
                                            /\ c.objectKey = args.objectKey)
  IN /\ resp' = IF Len(found) > 1
                  THEN Failure("getPlaybackUrl", auth, args, NotUnique)
                ELSE IF Len(found) = 0
                  THEN Failure("getPlaybackUrl", auth, args, ClipDenied)
                ELSE Reply("getPlaybackUrl", auth, args,
                           [getUrl |-> [Key |-> args.objectKey, expiresIn |-> 3600]])
     /\ UNCHANGED <<clips, sessions, nextClipId, nextSessionId, now, run, issued, objects, inflight>>

MetaFields == {"tags", "angle", "apparatus", "favorite", "sessionId"}

MetaUpdatesFirstOnly(args) ==
  LET supplied == {g \in MetaFields : args[g] # None}
      order == <<"tags", "angle", "apparatus", "favorite", "sessionId">>
      first == order[CHOOSE i \in 1..5 : order[i] \in supplied
                                          /\ \A j \in 1..(i - 1) : order[j] \notin supplied]
  IN [f \in (IF supplied = {} THEN {} ELSE {first}) |->
        IF f = "tags" THEN args.tags[1] ELSE args[f]]

MetaUpdatesClearingOmitted(args) ==
  [f \in {g \in MetaFields : args[g] # None} \cup {"angle", "apparatus", "sessionId"} |->
     IF f = "tags" THEN args.tags[1] ELSE args[f]]

MetaUpdatesRestamping(args) ==
  [f \in {g \in MetaFields : args[g] # None} \cup {"createdAt"} |->
     IF f = "createdAt" THEN now
     ELSE IF f = "tags" THEN args.tags[1] ELSE args[f]]

\* const updates = {}; if (args.f !== undefined) updates.f = args.f
MetaUpdates(args) ==
  [f \in {g \in MetaFields : args[g] # None} |->
     IF f = "tags" THEN args.tags[1] ELSE args[f]]

\* clips updateMeta
UpdateMeta(auth, args) ==
  LET userId == getCurrentUserId(auth)
      clip == DbGet(clips, args.id)
  IN IF NotOwned(clip, userId)
       THEN /\ resp' = Failure("updateMeta", auth, args, ClipDenied)
            /\ UNCHANGED <<clips, sessions, nextClipId, nextSessionId, now, run, issued, objects, inflight>>
       ELSE /\ clips' = DbPatch(clips, args.id, MetaUpdates(args))
            /\ resp' = Reply("updateMeta", auth, args, [success |-> TRUE])
            /\ UNCHANGED <<sessions, nextClipId, nextSessionId, now, run, issued, objects, inflight>>

\* clips updateMeta as two steps, one for each await of the handler, so that
\* two calls can overlap whatever isolation the store gives them.  The first
\* step is ctx.db.get and the ownership test; the call that passes it is kept
\* in inflight with the record it read.
UpdateMetaBegin(k, auth, args) ==
  LET userId == getCurrentUserId(auth)
      clip == DbGet(clips, args.id)
  IN /\ inflight[k] = None
     /\ IF NotOwned(clip, userId)
          THEN /\ resp' = Failure("updateMeta", auth, args, ClipDenied)
               /\ inflight' = [inflight EXCEPT ![k] =
                                Some([phase |-> "refused", auth |-> auth,
                                      args |-> args, clip |-> clip])]
          ELSE /\ resp' = resp
               /\ inflight' = [inflight EXCEPT ![k] =
                                Some([phase |-> "checked", auth |-> auth,
                                      args |-> args, clip |-> clip])]
     /\ UNCHANGED <<clips, sessions, nextClipId, nextSessionId, now, run, issued, objects>>

UpdateMetaCommitStale(k) ==
  /\ inflight[k] # None
  /\ inflight[k][1].phase = "checked"
  /\ LET call == inflight[k][1]
         written == DbPatch(<<call.clip[1]>>, call.args.id, MetaUpdates(call.args))[1]
     IN /\ clips' = [i \in DOMAIN clips |->
                       IF clips[i]._id = call.args.id THEN written ELSE clips[i]]
        /\ resp' = Reply("updateMeta", call.auth, call.args, [success |-> TRUE])
        /\ inflight' = [inflight EXCEPT ![k] = Some([call EXCEPT !.phase = "done"])]
  /\ UNCHANGED <<sessions, nextClipId, nextSessionId, now, run, issued, objects>>

\* the second step: ctx.db.patch(args.id, updates) and the return
UpdateMetaCommit(k) ==
  /\ inflight[k] # None
  /\ inflight[k][1].phase = "checked"
  /\ LET call == inflight[k][1]
     IN /\ clips' = DbPatch(clips, call.args.id, MetaUpdates(call.args))
        /\ resp' = Reply("updateMeta", call.auth, call.args, [success |-> TRUE])
        /\ inflight' = [inflight EXCEPT ![k] = Some([call EXCEPT !.phase = "done"])]
  /\ UNCHANGED <<sessions, nextClipId, nextSessionId, now, run, issued, objects>>

\* clips deleteClip
DeleteClip(auth, args) ==
  LET userId == getCurrentUserId(auth)
      clip == DbGet(clips, args.id)
  IN IF NotOwned(clip, userId)
       THEN /\ resp' = Failure("deleteClip", auth, args, ClipDenied)
            /\ UNCHANGED <<clips, sessions, nextClipId, nextSessionId, now, run, issued, objects, inflight>>
       ELSE /\ clips' = DbDelete(clips, args.id)
            /\ resp' = Reply("deleteClip", auth, args, [success |-> TRUE])
            /\ UNCHANGED <<sessions, nextClipId, nextSessionId, now, run, issued, objects, inflight>>

\* the client's record of a paging run: first is whether the run began with a
\* null cursor, acc the pages received so far, snap the clips table at the
\* first call and static whether every call of the run read that same table
StartChain(cursor, page) ==
  [first |-> cursor = None, acc |-> page, snap |-> clips, static |-> TRUE]

ContinueChain(page) ==
  [first |-> resp.chain.first, acc |-> resp.chain.acc \o page,
   snap |-> resp.chain.snap, static |-> resp.chain.static /\ clips = resp.chain.snap]

\* clips list
List(auth, args) ==
  LET out == ListHandler(clips, getCurrentUserId(auth), args)
  IN /\ resp' = [Reply("list", auth, args, out) EXCEPT
                   !.chain = StartChain(args.paginationOpts.cursor, out.page)]
     /\ UNCHANGED <<clips, sessions, nextClipId, nextSessionId, now, run, issued, objects, inflight>>

\* clips list called again by the same caller with the same filters and the
\* continueCursor of the response just received
ListNext ==
  /\ resp.op = "list"
  /\ ~resp.out.isDone
  /\ LET args == [resp.args EXCEPT !.paginationOpts.cursor = resp.out.continueCursor]
         out == ListHandler(clips, resp.userId, args)
     IN resp' = [Reply("list", resp.auth, args, out) EXCEPT
                   !.chain = ContinueChain(out.page)]
  /\ UNCHANGED <<clips, sessions, nextClipId, nextSessionId, now, run, issued, objects, inflight>>

\* search query
Query(auth, args) ==
  LET out == QueryHandler(clips, getCurrentUserId(auth), args)
  IN /\ resp' = [Reply("query", auth, args, out) EXCEPT
                   !.chain = StartChain(args.cursor, out.results)]
     /\ UNCHANGED <<clips, sessions, nextClipId, nextSessionId, now, run, issued, objects, inflight>>

\* search query called again with the cursor of the response just received
QueryNext ==
  /\ resp.op = "query"
  /\ ~resp.out.isDone
  /\ LET args == [resp.args EXCEPT !.cursor = resp.out.cursor]
         out == QueryHandler(clips, resp.userId, args)
     IN resp' = [Reply("query", resp.auth, args, out) EXCEPT
                   !.chain = ContinueChain(out.results)]
  /\ UNCHANGED <<clips, sessions, nextClipId, nextSessionId, now, run, issued, objects, inflight>>

\* A client that pages through clips list or search query and keeps what it
\* received: run holds the caller, the arguments, the cursor to send next,
\* the pages received and the clips table each request read.
RunRecord(op, auth, args, page, cursor, isDone) ==
  [op |-> op, auth |-> auth, userId |-> getCurrentUserId(auth), args |-> args,
   cursor |-> cursor, isDone |-> isDone, pages |-> <<page>>, tables |-> <<clips>>]

\* clips list, first request of the paging client
PagedList(auth, args) ==
  LET out == ListHandler(clips, getCurrentUserId(auth), args)
  IN /\ resp' = [Reply("list", auth, args, out) EXCEPT
                   !.chain = StartChain(args.paginationOpts.cursor, out.page)]
     /\ run' = RunRecord("list", auth, args, out.page, out.continueCursor, out.isDone)
     /\ UNCHANGED <<clips, sessions, nextClipId, nextSessionId, now, issued, objects, inflight>>

\* search query, first request of the paging client
PagedQuery(auth, args) ==
  LET out == QueryHandler(clips, getCurrentUserId(auth), args)
  IN /\ resp' = [Reply("query", auth, args, out) EXCEPT
                   !.chain = StartChain(args.cursor, out.results)]
     /\ run' = RunRecord("query", auth, args, out.results, out.cursor, out.isDone)
     /\ UNCHANGED <<clips, sessions, nextClipId, nextSessionId, now, issued, objects, inflight>>

\* the paging client's next request: the same call with the cursor it holds,
\* whatever other calls were served since the previous page
PagedNext ==
  /\ run # None
  /\ ~run.isDone
  /\ IF run.op = "list"
       THEN LET args == [run.args EXCEPT !.paginationOpts.cursor = run.cursor]
                out == ListHandler(clips, run.userId, args)
            IN /\ resp' = [Reply("list", run.auth, args, out) EXCEPT
                             !.chain = StartChain(args.paginationOpts.cursor, out.page)]
               /\ run' = [run EXCEPT !.cursor = out.continueCursor,
                                     !.isDone = out.isDone,
                                     !.pages = Append(@, out.page),
                                     !.tables = Append(@, clips)]
       ELSE LET args == [run.args EXCEPT !.cursor = run.cursor]
                out == QueryHandler(clips, run.userId, args)
            IN /\ resp' = [Reply("query", run.auth, args, out) EXCEPT
                             !.chain = StartChain(args.cursor, out.results)]
               /\ run' = [run EXCEPT !.cursor = out.cursor,
                                     !.isDone = out.isDone,
                                     !.pages = Append(@, out.results),
                                     !.tables = Append(@, clips)]
  /\ UNCHANGED <<clips, sessions, nextClipId, nextSessionId, now, issued, objects, inflight>>

\* sessions create; t is the value Date.now() returns
SessionCreate(auth, args, t, maxSessions) ==
  /\ nextSessionId <= maxSessions
  /\ t >= now
  /\ sessions' = Append(sessions,
       [_id |-> nextSessionId, userId |-> getCurrentUserId(auth),
        name |-> args.name, createdAt |-> t])
  /\ nextSessionId' = nextSessionId + 1
  /\ now' = t
  /\ resp' = Reply("sessions.create", auth, args, [sessionId |-> nextSessionId])
  /\ UNCHANGED <<clips, nextClipId, run, issued, objects, inflight>>

\* sessions list
SessionList(auth) ==
  /\ resp' = Reply("sessions.list", auth, None,
                   OrderDesc(WithIndexByUser(sessions, getCurrentUserId(auth))))
  /\ UNCHANGED <<clips, sessions, nextClipId, nextSessionId, now, run, issued, objects, inflight>>

SessionRenameAnyOwner(auth, args) ==
  LET session == DbGet(sessions, args.id)
  IN IF session = None
       THEN /\ resp' = Failure("sessions.rename", auth, args, SessionDenied)
            /\ UNCHANGED <<clips, sessions, nextClipId, nextSessionId, now, run, issued, objects, inflight>>
       ELSE /\ sessions' = DbPatch(sessions, args.id, [name |-> args.name])
            /\ resp' = Reply("sessions.rename", auth, args, [success |-> TRUE])
            /\ UNCHANGED <<clips, nextClipId, nextSessionId, now, run, issued, objects, inflight>>

\* sessions rename
SessionRename(auth, args) ==
  LET session == DbGet(sessions, args.id)
  IN IF NotOwned(session, getCurrentUserId(auth))
       THEN /\ resp' = Failure("sessions.rename", auth, args, SessionDenied)
            /\ UNCHANGED <<clips, sessions, nextClipId, nextSessionId, now, run, issued, objects, inflight>>
       ELSE /\ sessions' = DbPatch(sessions, args.id, [name |-> args.name])
            /\ resp' = Reply("sessions.rename", auth, args, [success |-> TRUE])
            /\ UNCHANGED <<clips, nextClipId, nextSessionId, now, run, issued, objects, inflight>>

SessionDeleteDetaching(auth, args) ==
  LET session == DbGet(sessions, args.id)
  IN IF NotOwned(session, getCurrentUserId(auth))
       THEN /\ resp' = Failure("sessions.deleteSession", auth, args, SessionDenied)
            /\ UNCHANGED <<clips, sessions, nextClipId, nextSessionId, now, run, issued, objects, inflight>>
       ELSE /\ sessions' = DbDelete(sessions, args.id)
            /\ clips' = [i \in DOMAIN clips |->
                           IF clips[i].sessionId = Some(args.id)
                             THEN [clips[i] EXCEPT !.sessionId = None] ELSE clips[i]]
            /\ resp' = Reply("sessions.deleteSession", auth, args, [success |-> TRUE])
            /\ UNCHANGED <<nextClipId, nextSessionId, now, run, issued, objects, inflight>>

\* sessions deleteSession
SessionDelete(auth, args) ==
  LET session == DbGet(sessions, args.id)
  IN IF NotOwned(session, getCurrentUserId(auth))
       THEN /\ resp' = Failure("sessions.deleteSession", auth, args, SessionDenied)
            /\ UNCHANGED <<clips, sessions, nextClipId, nextSessionId, now, run, issued, objects, inflight>>
       ELSE /\ sessions' = DbDelete(sessions, args.id)
            /\ resp' = Reply("sessions.deleteSession", auth, args, [success |-> TRUE])
            /\ UNCHANGED <<clips, nextClipId, nextSessionId, now, run, issued, objects, inflight>>

-----------------------------------------------------------------------------
(* Inputs of the handlers                                                    *)

front == <<"f","r","o","n","t">>
side == <<"s","i","d","e">>
floor == <<"f","l","o","o","r">>
rings == <<"r","i","n","g","s">>

Angles == {front, side}
Apparatuses == {floor, rings}

User1 == "u1"

NoFilter ==
  [tags |-> None, angle |-> None, apparatus |-> None, favorite |-> None,
   sessionId |-> None, dateRange |-> None]

NoMeta ==
  [tags |-> None, angle |-> None, apparatus |-> None, favorite |-> None,
   sessionId |-> None]

UploadArgs(objectKey, bytes) ==
  [objectKey |-> objectKey, bytes |-> bytes,
   durationMs |-> None, width |-> None, height |-> None]

ListArgs(filter, numItems, cursor) ==
  [paginationOpts |-> [numItems |-> numItems, cursor |-> cursor],
   tags |-> filter.tags, angle |-> filter.angle, apparatus |-> filter.apparatus,
   favorite |-> filter.favorite, sessionId |-> filter.sessionId,
   dateRange |-> filter.dateRange]

MetaArgs(id, meta) ==
  [id |-> id, tags |-> meta.tags, angle |-> meta.angle,
   apparatus |-> meta.apparatus, favorite |-> meta.favorite,
   sessionId |-> meta.sessionId]

QueryArgs(q, limit, cursor) == [q |-> q, limit |-> limit, cursor |-> cursor]

\* one step of the system under the inputs E offers
Next(E) ==
  \/ \E auth \in E.auths, args \in E.uploads, t \in 1..E.maxTime :
       FinalizeUpload(auth, args, t, E.maxClips)
  \/ \E auth \in E.auths, id \in 1..E.maxClips : Get(auth, [id |-> id])
  \/ \E auth \in E.auths, id \in 1..E.maxClips, meta \in E.metas :
       UpdateMeta(auth, MetaArgs(id, meta))
  \/ \E auth \in E.auths, id \in 1..E.maxClips : DeleteClip(auth, [id |-> id])
  \/ \E auth \in E.auths, args \in E.lists : List(auth, args)
  \/ ListNext
  \/ \E auth \in E.auths, args \in E.queries : Query(auth, args)
  \/ QueryNext
  \/ \E auth \in E.auths, name \in E.names, t \in 1..E.maxTime :
       SessionCreate(auth, [name |-> name], t, E.maxSessions)
  \/ \E auth \in E.auths : SessionList(auth)
  \/ \E auth \in E.auths, id \in 1..E.maxSessions, name \in E.names :
       SessionRename(auth, [id |-> id, name |-> name])
  \/ \E auth \in E.auths, id \in 1..E.maxSessions :
       SessionDelete(auth, [id |-> id])

MaxClips == 2
MaxSessions == 1
MaxTime == 2

keyA == <<"k","1">>
tagA == <<"a">>
tagB == <<"b">>
tagC == <<"c">>
tagD == <<"d">>
tagUpperA == <<"A">>

Auths == {None, Some(User1)}
Users == {getCurrentUserId(auth) : auth \in Auths}

Env ==
  [auths |-> Auths,
   uploads |-> {UploadArgs(keyA, 1), UploadArgs(keyA, MAX_FILE_SIZE + 1)},
   maxTime |-> MaxTime, maxClips |-> MaxClips, maxSessions |-> MaxSessions,
   metas |-> {[NoMeta EXCEPT !.tags = Some(<<tagA, tagB>>)],
              [NoMeta EXCEPT !.favorite = Some(TRUE), !.sessionId = Some(1)]},
   lists |-> {ListArgs(NoFilter, 10, None),
              ListArgs([NoFilter EXCEPT !.tags = Some(<<tagB>>)], 1, None),
              ListArgs([NoFilter EXCEPT !.favorite = Some(TRUE)], 10, None),
              ListArgs([NoFilter EXCEPT !.favorite = Some(FALSE)], 10, None)},
   queries |-> {QueryArgs(<<"a">>, None, None), QueryArgs(<<"k">>, Some(1), None)},
   names |-> {"n1", "n2"}]

NextMain == Next(Env)

Spec == Init /\ [][NextMain]_vars

-----------------------------------------------------------------------------
(* The handlers as functions of the store: the store is drawn from tables   *)
(* the operations above build, and one call is applied to it.               *)

Clip(id, shape) ==
  [_id |-> id, userId |-> shape.userId, objectKey |-> shape.objectKey,
   createdAt |-> shape.createdAt, bytes |-> 1, durationMs |-> None,
   width |-> None, height |-> None, tags |-> shape.tags, angle |-> shape.angle,
   apparatus |-> shape.apparatus, favorite |-> shape.favorite,
   sessionId |-> shape.sessionId]

\* the tables of n clips over shapes, inserted with a clock that never runs back
Tables(shapes, n) ==
  {SubSeq([i \in 1..n |-> Clip(i, t[i])], 1, n) :
     t \in {u \in [1..n -> shapes] :
              \A i \in 1..n : \A j \in i..n : u[i].createdAt <= u[j].createdAt}}

RECURSIVE TablesUpTo(_, _)
TablesUpTo(shapes, n) ==
  IF n = 0 THEN {<<>>} ELSE Tables(shapes, n) \cup TablesUpTo(shapes, n - 1)

\* the state after the clips of table were finalized and given their metadata,
\* a session having been created first
InitWith(tables) ==
  /\ clips \in tables
  /\ sessions = <<[_id |-> 1, userId |-> User1, name |-> "n1", createdAt |-> 1]>>
  /\ nextClipId = Len(clips) + 1
  /\ nextSessionId = 2
  /\ now = IF Len(clips) = 0 THEN 1 ELSE clips[Len(clips)].createdAt
  /\ resp = [op |-> "none", auth |-> None, userId |-> DEV_USER_ID, args |-> None,
             ok |-> TRUE, out |-> None, error |-> "", chain |-> None]
  /\ run = None
  /\ issued = {}
  /\ objects = {}
  /\ inflight = NoCalls

ListMaxClips == 2

\* every combination of metadata on one clip
ListShapesWide ==
  [userId : Users, objectKey : {keyA}, createdAt : 1..MaxTime,
   tags : {<<>>, <<tagA, tagB>>, <<tagUpperA>>},
   angle : {None, Some(front)}, apparatus : {None, Some(floor)},
   favorite : {Some(FALSE), Some(TRUE)}, sessionId : {None, Some(1)}]

\* clips as finalized, or with every metadata field set
ListShapesNarrow ==
  {sh \in ListShapesWide :
     \/ /\ sh.tags = <<>> /\ sh.angle = None /\ sh.apparatus = None
        /\ sh.favorite = Some(FALSE) /\ sh.sessionId = None
     \/ /\ sh.tags = <<tagA, tagB>> /\ sh.angle # None /\ sh.apparatus # None
        /\ sh.favorite = Some(TRUE) /\ sh.sessionId # None}

ListTables == Tables(ListShapesWide, 1) \cup TablesUpTo(ListShapesNarrow, ListMaxClips)

ListFilters ==
  [tags : {None, Some(<<>>), Some(<<tagA>>), Some(<<tagB, tagC>>), Some(<<tagC, tagD>>)},
   angle : {None, Some(front), Some(side)},
   apparatus : {None, Some(floor)},
   favorite : {None, Some(TRUE), Some(FALSE)},
   sessionId : {None, Some(1), Some(2)},
   dateRange : {None} \cup {Some([start |-> a, end |-> b]) : a, b \in 1..MaxTime}]

UnpagedItems == 10

InitList == InitWith(ListTables)

NextList ==
  /\ resp.op = "none"
  /\ \E auth \in Auths, filter \in ListFilters :
       List(auth, ListArgs(filter, UnpagedItems, None))

SpecList == InitList /\ [][NextList]_vars

\* search query applied once to a drawn store
SearchMaxClips == 2

keyB == <<"x",".","y">>
tagMixed == <<"A","b">>
tagDash == <<"a","-","b">>
tagUnder == <<"c","_","d">>

SearchShapesWide ==
  {[userId |-> u, objectKey |-> k, createdAt |-> t, tags |-> tg,
    angle |-> aa[1], apparatus |-> aa[2], favorite |-> Some(FALSE), sessionId |-> None] :
     u \in Users, k \in {keyA, keyB}, t \in 1..MaxTime,
     tg \in {<<>>, <<tagMixed>>, <<tagDash, tagUnder>>},
     aa \in {<<None, None>>, <<Some(side), None>>, <<None, Some(floor)>>}}

SearchShapesNarrow ==
  {sh \in SearchShapesWide :
     sh.objectKey = keyA /\ sh.angle = None /\ sh.apparatus = None}

SearchTables ==
  Tables(SearchShapesWide, 1) \cup TablesUpTo(SearchShapesNarrow, SearchMaxClips)

SearchTexts ==
  {<<"a">>, <<"a","b","c">>, <<"A","B">>, <<"b"," ","a">>, <<"a"," ","z">>, <<"z">>,
   <<"k">>, <<"y",","," ","x">>, <<"s","i">>, <<"f","l","o","o","r">>,
   <<"c","_","d">>, <<"d">>, <<" ","a","-","b","\t">>}

BlankTexts == {<<>>, <<" ">>, <<"-">>, <<" ","-","\t","."," ">>}

InitSearch == InitWith(SearchTables)

NextSearch ==
  /\ resp.op = "none"
  /\ \E auth \in Auths :
       \/ \E q \in SearchTexts : Query(auth, QueryArgs(q, None, None))
       \/ \E q \in BlankTexts, limit \in {None, Some(0), Some(1)},
             cursor \in {None, Some(<<"1">>), Some(<<"x">>)} :
            Query(auth, QueryArgs(q, limit, cursor))

SpecSearch == InitSearch /\ [][NextSearch]_vars

\* clips list and search query paged over a drawn store
PageMaxClips == 3
PageMaxItems == 3

PageShapes ==
  {[userId |-> u, objectKey |-> keyA, createdAt |-> t, tags |-> m[1],
    angle |-> None, apparatus |-> None, favorite |-> m[2], sessionId |-> None] :
     u \in Users, t \in 1..MaxTime,
     m \in {<<<<>>, Some(FALSE)>>, <<<<tagA>>, Some(TRUE)>>}}

PageTables == TablesUpTo(PageShapes, PageMaxClips)

\* cursors that are the decimal string of an offset, with that offset
NumericCursors ==
  {[text |-> <<"0">>, offset |-> 0], [text |-> <<"1">>, offset |-> 1],
   [text |-> <<"2">>, offset |-> 2], [text |-> <<"3">>, offset |-> 3],
   [text |-> <<"4">>, offset |-> 4], [text |-> <<"5">>, offset |-> 5],
   [text |-> <<"1","0">>, offset |-> 10]}

PageCursors ==
  {None, Some(<<>>), Some(<<"x">>), Some(<<"1","x">>), Some(<<"-","1">>)}
    \cup {Some(c.text) : c \in {d \in NumericCursors : d.offset <= PageMaxClips}}
    \cup {Some(<<"1","0">>)}

InitPage == InitWith(PageTables)

NextPage ==
  \/ /\ resp.op = "none"
     /\ \E auth \in Auths, cursor \in PageCursors :
          \/ \E filter \in {NoFilter, [NoFilter EXCEPT !.favorite = Some(TRUE)]},
                numItems \in 0..PageMaxItems :
               List(auth, ListArgs(filter, numItems, cursor))
          \/ \E q \in {<<"a">>, <<"k">>, <<"-">>},
                limit \in {None} \cup {Some(n) : n \in 0..PageMaxItems} :
               Query(auth, QueryArgs(q, limit, cursor))
  \/ ListNext
  \/ QueryNext

SpecPage == InitPage /\ [][NextPage]_vars

\* runs of calls from a null cursor, by a client that goes on calling with the
\* cursor it was handed for as long as the last response was not the final one
LiveMaxClips == 3
LiveMaxItems == 2

LiveTables == TablesUpTo(PageShapes, LiveMaxClips)

InitLive == InitWith(LiveTables)

NextLive ==
  \/ /\ resp.op = "none"
     /\ \E auth \in Auths :
          \/ \E filter \in {NoFilter, [NoFilter EXCEPT !.favorite = Some(TRUE)]},
                numItems \in 0..LiveMaxItems :
               List(auth, ListArgs(filter, numItems, None))
          \/ \E q \in {<<"a">>, <<"k">>, <<"-">>},
                limit \in {None} \cup {Some(n) : n \in 0..LiveMaxItems} :
               Query(auth, QueryArgs(q, limit, None))
  \/ ListNext
  \/ QueryNext

SpecLive == InitLive /\ [][NextLive]_vars /\ WF_vars(ListNext) /\ WF_vars(QueryNext)

\* search query over clips tagged only "floor", finalized under various keys
FloorMaxClips == 2

handstand == <<"h","a","n","d","s","t","a","n","d">>
keyHandstand == <<"c","/","h","a","n","d","s","t","a","n","d",".","m","p","4">>
keyHand == <<"h","a","n","d","-","1">>
keyExtA == <<"c","/","1",".","a">>

FloorShapes ==
  {[userId |-> u, objectKey |-> k, createdAt |-> t, tags |-> <<floor>>,
    angle |-> None, apparatus |-> None, favorite |-> Some(FALSE), sessionId |-> None] :
     u \in Users, k \in {keyA, keyHandstand, keyHand, keyExtA}, t \in 1..MaxTime}

FloorTables == TablesUpTo(FloorShapes, FloorMaxClips)

FloorTexts ==
  {handstand, floor, <<"H","a","n","d","s","t","a","n","d","!">>, <<"s","t","a","n","d">>}

InitFloor == InitWith(FloorTables)

NextFloor ==
  /\ resp.op = "none"
  /\ \E auth \in Auths, q \in FloorTexts : Query(auth, QueryArgs(q, None, None))

SpecFloor == InitFloor /\ [][NextFloor]_vars

\* search query with and without a limit over stores of up to a page and more
DefaultMaxClips == 22

\* n clips of one owner, finalized one after the other, all matching "k"
DefaultTables ==
  {[i \in 1..n |-> Clip(i, [userId |-> u, objectKey |-> keyA, createdAt |-> i,
                            tags |-> <<>>, angle |-> None, apparatus |-> None,
                            favorite |-> Some(FALSE), sessionId |-> None])] :
     n \in 0..DefaultMaxClips, u \in Users}

\* cursors that are the decimal string of an offset, with that offset
DefaultCursors ==
  {[text |-> <<"1">>, offset |-> 1], [text |-> <<"2">>, offset |-> 2],
   [text |-> <<"2","0">>, offset |-> 20], [text |-> <<"2","1">>, offset |-> 21]}

InitDefault == InitWith(DefaultTables)

NextDefault ==
  /\ resp.op = "none"
  /\ \E auth \in Auths, limit \in {None, Some(0), Some(1), Some(20)},
        cursor \in {None} \cup {Some(c.text) : c \in DefaultCursors} :
       Query(auth, QueryArgs(<<"k">>, limit, cursor))

SpecDefault == InitDefault /\ [][NextDefault]_vars

\* a paging client whose requests interleave with uploads and deletions
RaceMaxClips == 2
RaceMaxNew == 1

keyK2 == <<"k","2">>
keyK3 == <<"k","3">>

RaceKeys == <<keyA, keyK2, keyK3, <<"k","4">>, <<"k","5">>>>

\* tables whose clips were finalized under different object keys
RaceTables ==
  UNION {{[i \in 1..n |-> Clip(i, [userId |-> own[i], objectKey |-> RaceKeys[i],
                                    createdAt |-> at[i], tags |-> <<>>,
                                    angle |-> None, apparatus |-> None,
                                    favorite |-> Some(FALSE), sessionId |-> None])] :
            own \in [1..n -> Users],
            at \in {u \in [1..n -> 1..MaxTime] :
                      \A i \in 1..n : \A j \in i..n : u[i] <= u[j]}} :
         n \in 0..RaceMaxClips}

InitRace == InitWith(RaceTables)

NextRace ==
  \/ /\ resp.op = "none"
     /\ \E auth \in Auths : PagedList(auth, ListArgs(NoFilter, 1, None))
  \/ /\ resp.op = "none"
     /\ \E auth \in Auths : PagedQuery(auth, QueryArgs(<<"k">>, Some(1), None))
  \/ PagedNext
  \/ \E auth \in Auths, id \in 1..(RaceMaxClips + RaceMaxNew) :
       DeleteClip(auth, [id |-> id])
  \/ \E auth \in Auths, key \in {keyA, keyK2}, t \in 1..MaxTime :
       FinalizeUpload(auth, UploadArgs(key, 1), t, RaceMaxClips + RaceMaxNew)

SpecRace == InitRace /\ [][NextRace]_vars

-----------------------------------------------------------------------------
(* The upload protocol beside the catalog handlers (SpecUpload)             *)

UploadMaxClips == 2
UploadMaxTime == 1

extMp4 == <<"m","p","4">>
randomX == <<"x">>

RequestArgs(contentType, ext, sizeBytes) ==
  [contentType |-> contentType, ext |-> ext, sizeBytes |-> sizeBytes]

UploadRequests ==
  {RequestArgs("video/mp4", extMp4, 1),
   RequestArgs("video/mp4", extMp4, MAX_FILE_SIZE + 1),
   RequestArgs("text/plain", extMp4, 1)}

\* the keys requestUpload can hand out here, and one it never does
UploadKeys ==
  {ObjectKeyFor(u, t, randomX, extMp4) : u \in Users, t \in 1..UploadMaxTime}
    \cup {keyA}

NextUpload ==
  \/ \E auth \in Auths, args \in UploadRequests, t \in 1..UploadMaxTime :
       RequestUpload(auth, args, t, randomX)
  \/ \E k \in UploadKeys : PutObject(k)
  \/ \E auth \in Auths, k \in UploadKeys, b \in {1, MAX_FILE_SIZE + 1},
        t \in 1..UploadMaxTime :
       FinalizeUpload(auth, UploadArgs(k, b), t, UploadMaxClips)
  \/ \E auth \in Auths, id \in 1..UploadMaxClips :
       UpdateMeta(auth, MetaArgs(id, [NoMeta EXCEPT !.favorite = Some(TRUE)]))
  \/ \E auth \in Auths, id \in 1..UploadMaxClips : DeleteClip(auth, [id |-> id])
  \/ \E auth \in Auths, k \in UploadKeys :
       GetPlaybackUrl(auth, [objectKey |-> k])

SpecUpload == Init /\ [][NextUpload]_vars

-----------------------------------------------------------------------------
(* The session handlers over several sessions (SpecSession)                 *)

SessionMaxSessions == 2
SessionMaxClips == 1
SessionMaxTime == 2

SessionNames == {"n1", "n2"}

NextSession ==
  \/ \E auth \in Auths, name \in SessionNames, t \in 1..SessionMaxTime :
       SessionCreate(auth, [name |-> name], t, SessionMaxSessions)
  \/ \E auth \in Auths : SessionList(auth)
  \/ \E auth \in Auths, id \in 1..(SessionMaxSessions + 1), name \in SessionNames :
       SessionRename(auth, [id |-> id, name |-> name])
  \/ \E auth \in Auths, id \in 1..(SessionMaxSessions + 1) :
       SessionDelete(auth, [id |-> id])
  \/ \E auth \in Auths, t \in 1..SessionMaxTime :
       FinalizeUpload(auth, UploadArgs(keyA, 1), t, SessionMaxClips)
  \/ \E auth \in Auths, id \in 1..SessionMaxClips, sid \in 1..SessionMaxSessions :
       UpdateMeta(auth, MetaArgs(id, [NoMeta EXCEPT !.sessionId = Some(sid)]))

SpecSession == Init /\ [][NextSession]_vars

-----------------------------------------------------------------------------
(* tokenize as a function of its text (SpecTokens)                          *)

TokenMaxLen == 4

\* a lower-case and an upper-case letter, a digit, the underscore, two white
\* space characters, a punctuation mark and a letter outside A-Z and a-z
TokenAlphabet == {"a", "B", "1", "_", " ", "\t", "-", "é"}

TokenTexts == UNION {[1..n -> TokenAlphabet] : n \in 0..TokenMaxLen}

\* one call of tokenize
Tokenize(text) ==
  /\ resp' = Reply("tokenize", None, [text |-> text], tokenize(text))
  /\ UNCHANGED <<clips, sessions, nextClipId, nextSessionId, now, run, issued, objects, inflight>>

NextTokens ==
  \/ /\ resp.op = "none"
     /\ \E text \in TokenTexts : Tokenize(text)
  \/ /\ resp.op = "tokenize"
     /\ Tokenize(join(resp.out))

SpecTokens == Init /\ [][NextTokens]_vars

-----------------------------------------------------------------------------
(* updateMeta over every optional field of one clip (SpecMeta)              *)

MetaMaxClips == 1
MetaMaxSessions == 1

\* one field supplied at a time, two values for each optional field, and a
\* call that supplies nothing
MetaChoices ==
  {NoMeta, [NoMeta EXCEPT !.tags = Some(<<>>)], [NoMeta EXCEPT !.favorite = Some(FALSE)]}
    \cup {[NoMeta EXCEPT !.angle = Some(a)] : a \in Angles}
    \cup {[NoMeta EXCEPT !.apparatus = Some(a)] : a \in Apparatuses}
    \cup {[NoMeta EXCEPT !.sessionId = Some(i)] : i \in 1..(MetaMaxSessions + 1)}

NextMeta ==
  \/ \E auth \in Auths : FinalizeUpload(auth, UploadArgs(keyA, 1), 1, MetaMaxClips)
  \/ \E auth \in Auths, id \in 1..MetaMaxClips, meta \in MetaChoices :
       UpdateMeta(auth, MetaArgs(id, meta))
  \/ \E auth \in Auths, id \in 1..MetaMaxClips : DeleteClip(auth, [id |-> id])
  \/ \E auth \in Auths : SessionCreate(auth, [name |-> "n1"], 1, MetaMaxSessions)
  \/ \E auth \in Auths, id \in 1..MetaMaxSessions : SessionDelete(auth, [id |-> id])

SpecMeta == Init /\ [][NextMeta]_vars

-----------------------------------------------------------------------------
(* Two overlapping updateMeta calls (SpecOverlap)                           *)

OverlapMaxClips == 2

OverlapShapes ==
  {[userId |-> u, objectKey |-> keyA, createdAt |-> 1, tags |-> m[1],
    angle |-> m[2], apparatus |-> None, favorite |-> Some(FALSE), sessionId |-> None] :
     u \in Users, m \in {<<<<>>, None>>, <<<<tagB>>, Some(side)>>}}

OverlapTables == TablesUpTo(OverlapShapes, OverlapMaxClips)

\* field sets that are disjoint, that overlap, and that are equal
OverlapMetas ==
  {[NoMeta EXCEPT !.tags = Some(<<tagA>>)],
   [NoMeta EXCEPT !.angle = Some(front)],
   [NoMeta EXCEPT !.angle = Some(side), !.favorite = Some(TRUE)],
   [NoMeta EXCEPT !.favorite = Some(TRUE), !.sessionId = Some(1)]}

InitOverlap == InitWith(OverlapTables)

NextOverlap ==
  \/ \E k \in Connections, auth \in Auths, id \in 1..OverlapMaxClips,
        meta \in OverlapMetas :
       UpdateMetaBegin(k, auth, MetaArgs(id, meta))
  \/ \E k \in Connections : UpdateMetaCommit(k)

SpecOverlap == InitOverlap /\ [][NextOverlap]_vars

-----------------------------------------------------------------------------
(* Properties of clips list as a function of the store (SpecList)           *)

OwnClips(userId) == {c \in Range(clips) : c.userId = userId}

InSeq(c, seq) == \E i \in DOMAIN seq : seq[i] = c

\* the response is the whole filtered sequence: first page, nothing left over
Unpaged(r) ==
  /\ r.args.paginationOpts.cursor = None
  /\ r.args.paginationOpts.numItems >= Len(clips)

SharesTag(c, tags) == Range(tags) \cap Range(c.tags) # {}

SatisfiesRest(c, f) ==
  /\ f.angle # None => (c.angle # None /\ c.angle[1] = f.angle[1])
  /\ f.apparatus # None => (c.apparatus # None /\ c.apparatus[1] = f.apparatus[1])
  /\ f.favorite # None => (c.favorite # None /\ c.favorite[1] = f.favorite[1])
  /\ f.sessionId # None => (c.sessionId # None /\ c.sessionId[1] = f.sessionId[1])
  /\ f.dateRange # None =>
       (f.dateRange[1].start <= c.createdAt /\ c.createdAt <= f.dateRange[1].end)

NothingSupplied(f) ==
  /\ f.tags = None /\ f.angle = None /\ f.apparatus = None
  /\ f.favorite = None /\ f.sessionId = None /\ f.dateRange = None

NewestFirst(page) ==
  \A i \in DOMAIN page : \A j \in DOMAIN page :
    i < j => page[i].createdAt >= page[j].createdAt

AllOwnNewestFirst(r) ==
  /\ Range(r.out.page) = OwnClips(r.userId)
  /\ Len(r.out.page) = Cardinality(OwnClips(r.userId))
  /\ NewestFirst(r.out.page)

\* C3 as stated: in the unpaginated list response a clip of the caller is
\* present iff it satisfies every supplied filter field, a supplied tags
\* list being satisfied by sharing a tag with it; with no filter the
\* response is all of the caller's clips, newest first.
C3_FilterConjunctionAsStated ==
  (resp.op = "list" /\ Unpaged(resp)) =>
    /\ \A c \in OwnClips(resp.userId) :
         InSeq(c, resp.out.page) <=>
           /\ resp.args.tags # None => SharesTag(c, resp.args.tags[1])
           /\ SatisfiesRest(c, resp.args)
    /\ NothingSupplied(resp.args) => AllOwnNewestFirst(resp)

\* C3 amended: the same, a tags list constraining only when it is non-empty
\* (an empty tags list is treated as no tags filter).
C3_FilterConjunction ==
  (resp.op = "list" /\ Unpaged(resp)) =>
    /\ \A c \in OwnClips(resp.userId) :
         InSeq(c, resp.out.page) <=>
           /\ (resp.args.tags # None /\ resp.args.tags[1] # <<>>) =>
                SharesTag(c, resp.args.tags[1])
           /\ SatisfiesRest(c, resp.args)
    /\ NothingSupplied(resp.args) => AllOwnNewestFirst(resp)

\* a list call with several filters supplied that keeps one of the caller's
\* clips and drops another
C3_Witness ==
  /\ resp.op = "list" /\ Unpaged(resp)
  /\ resp.args.tags # None /\ resp.args.tags[1] # <<>>
  /\ resp.args.favorite # None /\ resp.args.dateRange # None
  /\ Len(resp.out.page) = 1
  /\ Cardinality(OwnClips(resp.userId)) = 2

\* C34: a list call whose tags filter is the empty list answers exactly as
\* the same call with no tags filter, whatever the other filters and the
\* store.
C34_EmptyTagsNoConstraint ==
  (resp.op = "list" /\ resp.args.tags = Some(<<>>)) =>
    LET absent == ListHandler(clips, resp.userId, [resp.args EXCEPT !.tags = None])
    IN /\ resp.out.page = absent.page
       /\ resp.out.isDone = absent.isDone
       /\ resp.out.continueCursor = absent.continueCursor

\* a list call with an empty tags list and a favorite filter that keeps one
\* of the caller's two clips, a tagged one
C34_Witness ==
  /\ resp.op = "list" /\ resp.args.tags = Some(<<>>)
  /\ resp.args.favorite # None
  /\ Len(resp.out.page) = 1
  /\ resp.out.page[1].tags # <<>>
  /\ Cardinality(OwnClips(resp.userId)) = 2

\* C9: with a non-empty tags filter (and no other filter) a clip of the
\* caller is listed iff at least one filter tag equals one of its tags.
C9_TagFilterIsOr ==
  (/\ resp.op = "list" /\ Unpaged(resp)
   /\ resp.args.tags # None /\ resp.args.tags[1] # <<>>
   /\ NothingSupplied([resp.args EXCEPT !.tags = None])) =>
    \A c \in OwnClips(resp.userId) :
      InSeq(c, resp.out.page) <=>
        \E i \in DOMAIN resp.args.tags[1] : \E j \in DOMAIN c.tags :
          c.tags[j] = resp.args.tags[1][i]

\* the example of the claim: a clip tagged [a, b] listed under filter [b, c]
C9_Witness ==
  /\ resp.op = "list" /\ Unpaged(resp)
  /\ resp.args.tags = Some(<<tagB, tagC>>)
  /\ NothingSupplied([resp.args EXCEPT !.tags = None])
  /\ \E c \in OwnClips(resp.userId) :
       c.tags = <<tagA, tagB>> /\ InSeq(c, resp.out.page)

\* C10: with a dateRange filter (and no other filter) a clip of the caller
\* is listed iff start <= createdAt <= end.
C10_DateRangeInclusive ==
  (/\ resp.op = "list" /\ Unpaged(resp)
   /\ resp.args.dateRange # None
   /\ NothingSupplied([resp.args EXCEPT !.dateRange = None])) =>
    \A c \in OwnClips(resp.userId) :
      InSeq(c, resp.out.page) <=>
        /\ resp.args.dateRange[1].start <= c.createdAt
        /\ c.createdAt <= resp.args.dateRange[1].end

\* a range with start < end whose response holds a clip created at start and
\* a clip created at end
C10_Witness ==
  /\ resp.op = "list" /\ Unpaged(resp)
  /\ resp.args.dateRange # None
  /\ NothingSupplied([resp.args EXCEPT !.dateRange = None])
  /\ resp.args.dateRange[1].start < resp.args.dateRange[1].end
  /\ \E c \in Range(resp.out.page) : c.createdAt = resp.args.dateRange[1].start
  /\ \E c \in Range(resp.out.page) : c.createdAt = resp.args.dateRange[1].end

-----------------------------------------------------------------------------
(* Properties of the pagination of clips list and search query (SpecPage)   *)

\* the sequence a page is cut from
ListSequence(r) == ListFilter(ListCollect(clips, r.userId, r.args), r.args)

IsWordText(c) == c \in WordChars

NoToken(q) == \A i \in DOMAIN q : ~IsWordText(q[i])

QuerySequence(r) ==
  IF NoToken(r.args.q) THEN <<>> ELSE SearchMatching(clips, r.userId, tokenize(r.args.q))

\* the page size of a search call: limit, 20 when unset or 0
PageSizeOf(limit) == IF limit = None \/ limit[1] = 0 THEN 20 ELSE limit[1]

\* C4: a run of calls that began with a null cursor, followed each returned
\* cursor, read the same table at every call and has reached isDone, with a
\* page size of at least 1, has received exactly the full sequence.
C4_PaginationExhaustive ==
  /\ (/\ resp.op = "list" /\ resp.chain.first /\ resp.chain.static
      /\ resp.out.isDone /\ resp.args.paginationOpts.numItems >= 1)
       => resp.chain.acc = ListSequence(resp)
  /\ (/\ resp.op = "query" /\ resp.chain.first /\ resp.chain.static
      /\ resp.out.isDone /\ PageSizeOf(resp.args.limit) >= 1)
       => resp.chain.acc = QuerySequence(resp)

\* a list run of three pages of one clip each, finished
C4_Witness ==
  /\ resp.op = "list" /\ resp.chain.first /\ resp.chain.static /\ resp.out.isDone
  /\ resp.args.paginationOpts.numItems = 1
  /\ resp.args.paginationOpts.cursor = Some(<<"2">>)
  /\ Len(resp.chain.acc) = 3

IsNumericCursor(cursor) ==
  cursor = None \/ \E c \in NumericCursors : c.text = cursor[1]

OffsetOf(cursor) ==
  IF cursor = None THEN 0
  ELSE (CHOOSE c \in NumericCursors : c.text = cursor[1]).offset

DecimalOf(n) == (CHOOSE c \in NumericCursors : c.offset = n).text

\* sequence[offset : offset + size]
Window(seq, offset, size) ==
  LET last == IF offset + size > Len(seq) THEN Len(seq) ELSE offset + size
  IN [i \in 1..(IF last > offset THEN last - offset ELSE 0) |-> seq[offset + i]]

\* C5: for a null cursor or the decimal string of an offset, and a page size
\* >= 0, the page is sequence[offset : offset+size], isDone is
\* offset+size >= length, and the returned cursor is null when done and the
\* decimal string of offset+size otherwise.
C5_CursorProtocol ==
  /\ (resp.op = "list" /\ IsNumericCursor(resp.args.paginationOpts.cursor)) =>
       LET seq == ListSequence(resp)
           offset == OffsetOf(resp.args.paginationOpts.cursor)
           size == resp.args.paginationOpts.numItems
           done == offset + size >= Len(seq)
       IN /\ resp.out.page = Window(seq, offset, size)
          /\ resp.out.isDone = done
          /\ resp.out.continueCursor =
               IF done THEN None ELSE Some(DecimalOf(offset + size))
  /\ (resp.op = "query" /\ IsNumericCursor(resp.args.cursor)) =>
       LET seq == QuerySequence(resp)
           offset == OffsetOf(resp.args.cursor)
           size == PageSizeOf(resp.args.limit)
           done == offset + size >= Len(seq)
       IN /\ resp.out.results = Window(seq, offset, size)
          /\ resp.out.isDone = done
          /\ resp.out.cursor = IF done THEN None ELSE Some(DecimalOf(offset + size))

\* a search call with a non-zero offset that returns a page and a cursor
C5_Witness ==
  /\ resp.op = "query" /\ resp.args.cursor = Some(<<"1">>)
  /\ Len(resp.out.results) = 1 /\ ~resp.out.isDone
  /\ resp.out.cursor = Some(<<"2">>)

IsMalformed(cursor) ==
  cursor # None /\ \E i \in DOMAIN cursor[1] : cursor[1][i] \notin Digits \cup {"-", "+"}

\* C6: a call whose cursor is not a decimal number answers exactly as the
\* same call with a null cursor (offset 0).
C6_MalformedCursorIsOffsetZero ==
  /\ (resp.op = "list" /\ IsMalformed(resp.args.paginationOpts.cursor)) =>
       resp.out = ListHandler(clips, resp.userId,
                              [resp.args EXCEPT !.paginationOpts.cursor = None])
  /\ (resp.op = "query" /\ IsMalformed(resp.args.cursor)) =>
       resp.out = QueryHandler(clips, resp.userId, [resp.args EXCEPT !.cursor = None])

\* the response belongs to a run of calls that began with a null cursor
RunFromNull(r) == r.op \in {"list", "query"} /\ r.chain.first

\* the page size the call asked for
AskedPageSize(r) ==
  IF r.op = "list" THEN r.args.paginationOpts.numItems ELSE PageSizeOf(r.args.limit)

\* C29 as stated: every run that began with a null cursor, whatever its page
\* size (0 included for list), reaches a response with isDone = true.
C29_PagingTerminatesAsStated ==
  RunFromNull(resp) ~> (RunFromNull(resp) /\ resp.out.isDone)

\* C29: every run that began with a null cursor and asks for pages of at
\* least one clip (for search, limit unset or 0 asks for 20) reaches a
\* response with isDone = true; a list run with numItems = 0 reaches one only
\* when the filtered sequence is empty.
C29_PagingTerminates ==
  /\ (RunFromNull(resp) /\ AskedPageSize(resp) >= 1)
        ~> (RunFromNull(resp) /\ resp.out.isDone)
  /\ [](/\ RunFromNull(resp) /\ resp.op = "list" /\ AskedPageSize(resp) = 0
        => (resp.out.isDone <=> ListSequence(resp) = <<>>))

\* the third and last response of a list run of one clip per page
C29_Witness ==
  /\ RunFromNull(resp) /\ resp.op = "list"
  /\ AskedPageSize(resp) = 1
  /\ resp.args.paginationOpts.cursor = Some(<<"2">>)
  /\ resp.out.isDone
  /\ Len(resp.chain.acc) = 3 /\ Len(ListSequence(resp)) = 3

\* a is b with some elements left out
RECURSIVE IsSubsequence(_, _)
IsSubsequence(a, b) ==
  IF a = <<>> THEN TRUE
  ELSE IF b = <<>> THEN FALSE
  ELSE IF Head(a) = Head(b) THEN IsSubsequence(Tail(a), Tail(b))
  ELSE IsSubsequence(a, Tail(b))

\* what list returns to that caller with no filter and no paging
UnfilteredList(userId) ==
  ListHandler(clips, userId, ListArgs(NoFilter, Len(clips) + 1, None)).page

\* what search returns to that caller for that query with no paging
WholeMatch(userId, q) ==
  QueryHandler(clips, userId, QueryArgs(q, Some(Len(clips) + 1), None)).results

\* C25: every page of list and of search is in non-increasing createdAt
\* order, the pages of a run over an unchanged store put end to end are in
\* that order too, and everything a search matches, in the order search
\* returns it, is the caller's unfiltered list with some clips left out.
C25_OrderPreservation ==
  /\ resp.op = "list" =>
       /\ NewestFirst(resp.out.page)
       /\ resp.chain.static => NewestFirst(resp.chain.acc)
  /\ resp.op = "query" =>
       /\ NewestFirst(resp.out.results)
       /\ resp.chain.static => NewestFirst(resp.chain.acc)
       /\ IsSubsequence(WholeMatch(resp.userId, resp.args.q),
                        UnfilteredList(resp.userId))

\* the second one-clip page of a search that matches two clips of different
\* ages, the caller owning a third clip the search does not match
C25_Witness ==
  /\ resp.op = "query" /\ resp.chain.first /\ resp.chain.static
  /\ resp.args.q = <<"a">>
  /\ resp.args.cursor = Some(<<"1">>)
  /\ Len(resp.chain.acc) = 2
  /\ resp.chain.acc[1].createdAt > resp.chain.acc[2].createdAt
  /\ Len(WholeMatch(resp.userId, resp.args.q)) = 2
  /\ Len(UnfilteredList(resp.userId)) = 3

-----------------------------------------------------------------------------
(* Properties of search query as a function of the store (SpecSearch)       *)

\* the maximal runs of word characters of the lower-cased text
TokensOf(text) ==
  LET low == [i \in DOMAIN text |-> ToLowerChar(text[i])]
  IN {SubSeq(low, i, j) : <<i, j>> \in
        {p \in (DOMAIN low) \X (DOMAIN low) :
           /\ p[1] <= p[2]
           /\ \A k \in p[1]..p[2] : IsWordText(low[k])
           /\ (p[1] = 1 \/ ~IsWordText(low[p[1] - 1]))
           /\ (p[2] = Len(low) \/ ~IsWordText(low[p[2] + 1]))}}

ClipTokens(c) ==
  UNION ({TokensOf(c.tags[i]) : i \in DOMAIN c.tags}
           \cup {TokensOf(c.objectKey)}
           \cup {TokensOf(c.angle[i]) : i \in DOMAIN c.angle}
           \cup {TokensOf(c.apparatus[i]) : i \in DOMAIN c.apparatus})

IsSubstring(t, s) ==
  \E i \in 0..(Len(s) - Len(t)) : SubSeq(s, i + 1, i + Len(t)) = t

Contained(qt, c) ==
  \E st \in ClipTokens(c) : IsSubstring(qt, st) \/ IsSubstring(st, qt)

\* cursor null and a page size no smaller than the table
WholeSearch(r) == r.args.cursor = None /\ PageSizeOf(r.args.limit) >= Len(clips)

\* C7 as stated: a clip of the caller is in the full matched sequence iff
\* every query token is contained in, or contains, one of its search tokens.
C7_SearchMatchRuleAsStated ==
  (resp.op = "query" /\ WholeSearch(resp)) =>
    \A c \in OwnClips(resp.userId) :
      InSeq(c, resp.out.results) <=> \A qt \in TokensOf(resp.args.q) : Contained(qt, c)

\* C7 amended: the same for a query with at least one token; a query with no
\* token matches no clip.
C7_SearchMatchRule ==
  (resp.op = "query" /\ WholeSearch(resp)) =>
    \A c \in OwnClips(resp.userId) :
      InSeq(c, resp.out.results) <=>
        /\ TokensOf(resp.args.q) # {}
        /\ \A qt \in TokensOf(resp.args.q) : Contained(qt, c)

\* a query whose token holds a search token of one clip of the caller and is
\* unrelated to every search token of another
C7_Witness ==
  /\ resp.op = "query" /\ WholeSearch(resp)
  /\ resp.args.q = <<"a","b","c">>
  /\ Cardinality(OwnClips(resp.userId)) = 2
  /\ Len(resp.out.results) = 1

\* C8: a query that is empty, all white space or without any token returns
\* results = [], cursor = null, isDone = true and does not read the store.
C8_SearchShortCircuit ==
  (resp.op = "query" /\ NoToken(resp.args.q)) =>
    /\ resp.out.results = <<>>
    /\ resp.out.cursor = None
    /\ resp.out.isDone
    /\ ~resp.out.scanned

\* a punctuation-only query by a caller who owns a clip, limit and cursor set
C8_Witness ==
  /\ resp.op = "query" /\ resp.args.q = <<"-">>
  /\ resp.args.limit = Some(1) /\ resp.args.cursor = Some(<<"1">>)
  /\ OwnClips(resp.userId) # {}
  /\ resp.out.results = <<>>

-----------------------------------------------------------------------------
(* Properties of the whole state machine (Spec)                             *)

\* the records a read returned
Returned(r) ==
  IF r.op = "list" THEN Range(r.out.page)
  ELSE IF r.op = "query" THEN Range(r.out.results)
  ELSE IF r.op = "sessions.list" THEN Range(r.out)
  ELSE {}

\* C1: whatever uploads, metadata updates, deletions and session operations
\* came before, every record clips list, search query and sessions list return
\* has the caller's userId.
C1_OwnershipIsolation == \A rec \in Returned(resp) : rec.userId = resp.userId

\* an unfiltered list that returns the caller's clip while another owner's
\* clip, which passes the same (empty) filter set, is in the store
C1_Witness ==
  /\ resp.op = "list" /\ NothingSupplied(resp.args)
  /\ Len(resp.out.page) = 1
  /\ \E c \in Range(clips) : c.userId # resp.userId

\* the clip a mutation names belongs to someone other than the caller
ForeignClip(table, r) ==
  /\ DbGet(table, r.args.id) # None
  /\ DbGet(table, r.args.id)[1].userId # r.userId

\* C2: updateMeta and deleteClip on a clip of another owner fail with the
\* not-found-or-denied error and change no clip and no session.
C2_MutationIsolation ==
  [][(resp'.op \in {"updateMeta", "deleteClip"} /\ ForeignClip(clips, resp'))
       => /\ ~resp'.ok
          /\ resp'.error = ClipDenied
          /\ clips' = clips
          /\ sessions' = sessions]_vars

\* an updateMeta with new tags was refused on a clip of another owner, while
\* a session exists
C2_Witness ==
  /\ resp.op = "updateMeta" /\ ~resp.ok /\ resp.error = ClipDenied
  /\ resp.args.tags # None
  /\ ForeignClip(clips, resp)
  /\ sessions # <<>>

\* the table without the record of that id
Without(table, id) == SelectSeq(table, LAMBDA r : r._id # id)

\* C11: a successful deleteSession removes the session record and nothing
\* else: every clip, those whose sessionId is the deleted session included,
\* keeps all its fields.
C11_DeleteSessionNoCascade ==
  [][(resp'.op = "sessions.deleteSession" /\ resp'.ok)
       => /\ DbGet(sessions, resp'.args.id) # None
          /\ sessions' = Without(sessions, resp'.args.id)
          /\ clips' = clips]_vars

\* a session was deleted while a clip refers to it: the reference dangles
C11_Witness ==
  /\ resp.op = "sessions.deleteSession" /\ resp.ok
  /\ DbGet(sessions, resp.args.id) = None
  /\ \E c \in Range(clips) : c.sessionId = Some(resp.args.id)

\* C12: every clip whose sessionId names an existing session has that
\* session's owner.
C12_SessionClipCoOwnership ==
  \A c \in Range(clips) : \A s \in Range(sessions) :
    c.sessionId = Some(s._id) => c.userId = s.userId

\* C13: no two clip records carry the same objectKey.
C13_ObjectKeyUnique ==
  \A i \in DOMAIN clips : \A j \in DOMAIN clips :
    clips[i].objectKey = clips[j].objectKey => i = j

ClipOps == {"get", "updateMeta", "deleteClip"}

SessionOps == {"sessions.rename", "sessions.deleteSession"}

\* the record the call names is absent from the table
Absent(table, r) == DbGet(table, r.args.id) = None

\* what a caller sees of a refused single-record call
Refused(r, error) == ~r.ok /\ r.out = None /\ r.error = error

\* C14: a single-record operation on an id that does not exist and on an id
\* of another user's record ends the same way: the one error of its table,
\* no result, no change of the store.
C14_ExistenceHiding ==
  [][/\ (resp'.op \in ClipOps /\ (Absent(clips, resp') \/ ForeignClip(clips, resp')))
          => /\ Refused(resp', ClipDenied)
             /\ UNCHANGED <<clips, sessions, nextClipId, nextSessionId>>
     /\ (resp'.op \in SessionOps
           /\ (Absent(sessions, resp') \/ ForeignClip(sessions, resp')))
          => /\ Refused(resp', SessionDenied)
             /\ UNCHANGED <<clips, sessions, nextClipId, nextSessionId>>]_vars

\* get was refused on another user's clip while the other clip id does not
\* exist
C14_Witness ==
  /\ resp.op = "get" /\ ~resp.ok
  /\ ForeignClip(clips, resp)
  /\ \E id \in 1..MaxClips : DbGet(clips, id) = None

\* the clip with every supplied field set to the supplied value
WithAllSupplied(clip, args) ==
  [f \in DOMAIN clip |->
     IF f \in MetaFields /\ args[f] # None
       THEN (IF f = "tags" THEN args.tags[1] ELSE args[f])
       ELSE clip[f]]

\* the clip records a read handed to its caller
Observed(r) ==
  IF r.op = "get" /\ r.ok THEN {r.out}
  ELSE IF r.op \in {"list", "query"} THEN Returned(r)
  ELSE {}

\* C15: a successful updateMeta sets every supplied field of the clip in one
\* step and touches nothing else, a failing one changes no clip, and every
\* clip a get, list or search hands out is a record of the store as it is,
\* so none shows part of an update.
C15_AtomicMetadataUpdate ==
  /\ [](Observed(resp) \subseteq Range(clips))
  /\ [][resp'.op = "updateMeta" =>
          IF resp'.ok
            THEN clips' = [i \in DOMAIN clips |->
                             IF clips[i]._id = resp'.args.id
                               THEN WithAllSupplied(clips[i], resp'.args)
                               ELSE clips[i]]
            ELSE clips' = clips]_vars

\* an updateMeta that supplied favorite and sessionId succeeded and the clip
\* carries both, after it had been given tags
C15_Witness ==
  /\ resp.op = "updateMeta" /\ resp.ok
  /\ resp.args.favorite = Some(TRUE) /\ resp.args.sessionId = Some(1)
  /\ LET clip == DbGet(clips, resp.args.id)[1]
     IN clip.favorite = Some(TRUE) /\ clip.sessionId = Some(1) /\ clip.tags # <<>>

\* the response is the window of the sequence computed from the clips table
\* as it is at the request
FromStoreNow(r) ==
  IF r.op = "list"
    THEN r.out.page = Window(ListSequence(r), OffsetOf(r.args.paginationOpts.cursor),
                             r.args.paginationOpts.numItems)
  ELSE IF r.op = "query"
    THEN r.out.results = Window(QuerySequence(r), OffsetOf(r.args.cursor),
                                PageSizeOf(r.args.limit))
  ELSE TRUE

HasId(records, id) == \E rec \in records : rec._id = id

OnlyFavorite(f) ==
  /\ f.favorite = Some(TRUE)
  /\ f.tags = None /\ f.angle = None /\ f.apparatus = None
  /\ f.sessionId = None /\ f.dateRange = None

\* C17: every list and search response is filter-or-match then slice over the
\* store at the time of the request, and the call completed just before is
\* reflected: the owner's unfiltered list shows the clip just finalized, the
\* owner's list(favorite: true) shows the clip just made favorite, and no
\* list or search shows the clip just deleted.
C17_NoStaleResults ==
  /\ [](FromStoreNow(resp))
  /\ [][/\ (/\ resp.op = "finalizeUpload" /\ resp.ok
            /\ resp'.op = "list" /\ resp'.userId = resp.userId
            /\ Unpaged(resp') /\ NothingSupplied(resp'.args))
             => HasId(Returned(resp'), resp.out.clipId)
        /\ (/\ resp.op = "updateMeta" /\ resp.ok /\ resp.args.favorite = Some(TRUE)
            /\ resp'.op = "list" /\ resp'.userId = resp.userId
            /\ Unpaged(resp') /\ OnlyFavorite(resp'.args))
             => HasId(Returned(resp'), resp.args.id)
        /\ (/\ resp.op = "deleteClip" /\ resp.ok
            /\ resp'.op \in {"list", "query"})
             => ~HasId(Returned(resp'), resp.args.id)]_vars

\* a list(favorite: true) by a caller who owns two clips, one of which has
\* been made favorite, returns that one
C17_Witness ==
  /\ resp.op = "list" /\ Unpaged(resp) /\ OnlyFavorite(resp.args)
  /\ Cardinality(OwnClips(resp.userId)) = 2
  /\ Len(resp.out.page) = 1
  /\ resp.out.page[1].favorite = Some(TRUE)

\* the clip of that id was created and is no longer in the table
Deleted(table, nextId, id) == id < nextId /\ DbGet(table, id) = None

\* C18: a deleted clip id stays deleted; get, updateMeta and deleteClip on it
\* are refused with the not-found-or-denied error, and no list or search
\* response contains a clip of that id.
C18_DeleteIsTerminal ==
  /\ [](\A rec \in Returned(resp) :
          resp.op \in {"list", "query"} => ~Deleted(clips, nextClipId, rec._id))
  /\ [][/\ \A id \in 1..MaxClips :
             Deleted(clips, nextClipId, id) => Deleted(clips', nextClipId', id)
        /\ (resp'.op \in ClipOps /\ Deleted(clips, nextClipId, resp'.args.id))
             => Refused(resp', ClipDenied)]_vars

\* get is refused on the id of a deleted clip after another clip was
\* finalized
C18_Witness ==
  /\ resp.op = "get" /\ ~resp.ok
  /\ Deleted(clips, nextClipId, resp.args.id)
  /\ Len(clips) = 1

\* a list call whose only filter is favorite
FavoriteOnly(args) ==
  /\ args.favorite # None
  /\ args.tags = None /\ args.angle = None /\ args.apparatus = None
  /\ args.sessionId = None /\ args.dateRange = None

\* C27: every clip in the store has favorite true or false; the clip
\* finalizeUpload creates has it false and only an updateMeta that supplies
\* favorite changes it; so an unpaged list filtered on favorite alone returns
\* exactly the caller's clips whose favorite is the value asked for.
C27_FavoriteDefined ==
  /\ [](/\ \A c \in Range(clips) : c.favorite \in {Some(TRUE), Some(FALSE)}
        /\ (resp.op = "list" /\ FavoriteOnly(resp.args) /\ Unpaged(resp)) =>
             /\ Range(resp.out.page) =
                  {c \in OwnClips(resp.userId) : c.favorite = resp.args.favorite}
             /\ Len(resp.out.page) = Cardinality(Range(resp.out.page)))
  /\ [][/\ (resp'.op = "finalizeUpload" /\ resp'.ok) =>
             clips'[Len(clips')].favorite = Some(FALSE)
        /\ \A c \in Range(clips) : \A d \in Range(clips') :
             (c._id = d._id /\ d.favorite # c.favorite) =>
               /\ resp'.op = "updateMeta" /\ resp'.ok
               /\ resp'.args.id = c._id
               /\ resp'.args.favorite = d.favorite]_vars

\* a list of the clips that are not favorites returned one of the caller's two
\* clips, the other having been made a favorite
C27_Witness ==
  /\ resp.op = "list" /\ FavoriteOnly(resp.args) /\ Unpaged(resp)
  /\ resp.args.favorite = Some(FALSE)
  /\ Len(resp.out.page) = 1
  /\ Cardinality(OwnClips(resp.userId)) = 2

IdentityFields == {"userId", "objectKey", "createdAt", "bytes"}

\* the fields of a clip an updateMeta with these arguments may change
Supplied(args) == {f \in MetaFields : args[f] # None}

\* C26: in every step a clip that is in the store before and after keeps its
\* userId, objectKey, createdAt and bytes; a successful updateMeta keeps the
\* same clips in the same places, changes in the clip it names no field
\* other than the supplied ones among tags, angle, apparatus, favorite and
\* sessionId, and changes no other clip and no session.
C26_UpdateFrame ==
  [][/\ \A c \in Range(clips) : \A d \in Range(clips') :
          c._id = d._id => \A f \in IdentityFields : d[f] = c[f]
     /\ (resp'.op = "updateMeta" /\ resp'.ok) =>
          /\ DOMAIN clips' = DOMAIN clips
          /\ \A i \in DOMAIN clips :
               /\ clips'[i]._id = clips[i]._id
               /\ DOMAIN clips'[i] = DOMAIN clips[i]
               /\ IF clips[i]._id = resp'.args.id
                    THEN \A f \in DOMAIN clips[i] \ Supplied(resp'.args) :
                           clips'[i][f] = clips[i][f]
                    ELSE clips'[i] = clips[i]
          /\ sessions' = sessions]_vars

\* an updateMeta that supplied only tags succeeded on a clip that was already
\* a favorite filed under a session, a second clip being in the store
C26_Witness ==
  /\ resp.op = "updateMeta" /\ resp.ok
  /\ Supplied(resp.args) = {"tags"}
  /\ Len(clips) = 2
  /\ LET clip == DbGet(clips, resp.args.id)[1]
     IN /\ clip.tags = resp.args.tags[1]
        /\ clip.favorite = Some(TRUE) /\ clip.sessionId = Some(1)

\* the table with the name of the session of that id replaced
Renamed(table, id, name) ==
  [i \in DOMAIN table |->
     IF table[i]._id = id THEN [table[i] EXCEPT !.name = name] ELSE table[i]]

\* C24: rename and deleteSession on a session that is absent or owned by
\* another caller fail with the not-found-or-denied error and change no
\* session and no clip; a successful rename changes the name of the session
\* it names and nothing else.
C24_SessionMutationIsolation ==
  [][resp'.op \in SessionOps =>
      /\ (Absent(sessions, resp') \/ ForeignClip(sessions, resp'))
            => /\ Refused(resp', SessionDenied)
               /\ sessions' = sessions
               /\ clips' = clips
      /\ (resp'.op = "sessions.rename" /\ resp'.ok)
            => /\ sessions' = Renamed(sessions, resp'.args.id, resp'.args.name)
               /\ clips' = clips]_vars

\* a rename was refused on another caller's session while the caller owns a
\* session of their own and a clip is filed under the named session
C24_Witness ==
  /\ resp.op = "sessions.rename" /\ Refused(resp, SessionDenied)
  /\ ForeignClip(sessions, resp)
  /\ \E s \in Range(sessions) : s.userId = resp.userId
  /\ \E c \in Range(clips) : c.sessionId = Some(resp.args.id)

\* the identity a call is to act under: the authenticated caller, or the one
\* development user when there is none
ActsAs(r) == IF r.auth = None THEN DEV_USER_ID ELSE r.auth[1]

\* the step appended one record owned by who to the table
Created(before, after, who) ==
  /\ Len(after) = Len(before) + 1
  /\ SubSeq(after, 1, Len(before)) = before
  /\ after[Len(after)].userId = who

\* the record of that id is in the table and owned by who
OwnedBy(table, id, who) ==
  DbGet(table, id) # None /\ DbGet(table, id)[1].userId = who

\* C23: every call acts under the authenticated caller's id when there is one
\* and under the one development id when there is none: the records it
\* creates carry that id, the records it returns carry that id, and a
\* mutation that succeeds was applied to a record of that id.
C23_IdentityScoping ==
  [][LET who == ActsAs(resp')
     IN /\ \A rec \in Returned(resp') \cup Observed(resp') : rec.userId = who
        /\ (resp'.op = "finalizeUpload" /\ resp'.ok) => Created(clips, clips', who)
        /\ (resp'.op = "sessions.create" /\ resp'.ok)
              => Created(sessions, sessions', who)
        /\ (resp'.op \in {"updateMeta", "deleteClip"} /\ resp'.ok)
              => OwnedBy(clips, resp'.args.id, who)
        /\ (resp'.op \in SessionOps /\ resp'.ok)
              => OwnedBy(sessions, resp'.args.id, who)]_vars

\* an unauthenticated list returned the clip an earlier unauthenticated
\* upload created, while an authenticated caller's clip is in the store
C23_Witness ==
  /\ resp.op = "list" /\ resp.auth = None
  /\ resp.out.page # <<>>
  /\ \A rec \in Range(resp.out.page) : rec.userId = DEV_USER_ID
  /\ \E c \in Range(clips) : c.userId = User1

-----------------------------------------------------------------------------
(* Properties of search query over clips tagged "floor" (SpecFloor)         *)

\* tagged exactly ["floor"], angle and apparatus absent
FloorOnly(c) == c.tags = <<floor>> /\ c.angle = None /\ c.apparatus = None

\* no token of the object key holds the word or is part of it
KeyUnrelated(c, word) ==
  \A st \in TokensOf(c.objectKey) : ~IsSubstring(word, st) /\ ~IsSubstring(st, word)

\* C19 as stated: search "handstand" returns no clip tagged exactly
\* ["floor"] with angle and apparatus absent, whatever its object key.
C19_FloorNotHandstandAsStated ==
  (resp.op = "query" /\ resp.args.q = handstand) =>
    \A c \in Range(clips) : FloorOnly(c) => ~InSeq(c, resp.out.results)

\* C19 amended: search "handstand" returns no such clip whose object key has
\* no token that contains "handstand" or is contained in it.
C19_FloorNotHandstand ==
  (resp.op = "query" /\ resp.args.q = handstand) =>
    \A c \in Range(clips) :
      (FloorOnly(c) /\ KeyUnrelated(c, handstand)) => ~InSeq(c, resp.out.results)

\* the caller owns two such clips; search "handstand" returns the one whose
\* key matches and not the one whose key is unrelated
C19_Witness ==
  /\ resp.op = "query" /\ resp.args.q = handstand
  /\ Cardinality(OwnClips(resp.userId)) = 2
  /\ \E c \in OwnClips(resp.userId) :
       FloorOnly(c) /\ KeyUnrelated(c, handstand) /\ ~InSeq(c, resp.out.results)
  /\ Len(resp.out.results) = 1

-----------------------------------------------------------------------------
(* Properties of the default page size of search query (SpecDefault)        *)

DefaultOffset(cursor) ==
  IF cursor = None THEN 0
  ELSE (CHOOSE c \in DefaultCursors : c.text = cursor[1]).offset

DigitText == <<"0", "1", "2", "3", "4", "5", "6", "7", "8", "9">>

\* the decimal string of a number of two digits
TwoDigits(n) == <<DigitText[(n \div 10) + 1], DigitText[(n % 10) + 1]>>

-----------------------------------------------------------------------------
(* Properties of a paging run interleaved with other calls (SpecRace)       *)

\* the sequence the run's operation cuts its page from, over that table
RunSequence(r, table) ==
  IF r.op = "list" THEN ListFilter(ListCollect(table, r.userId, r.args), r.args)
  ELSE IF NoToken(r.args.q) THEN <<>>
  ELSE SearchMatching(table, r.userId, tokenize(r.args.q))

RunPageSize(r) ==
  IF r.op = "list" THEN r.args.paginationOpts.numItems ELSE PageSizeOf(r.args.limit)

\* between the run's first and second request exactly one clip, returned in
\* page 1, was deleted, and the sequence still has a clip at the page boundary
DeletedBetweenPages(r) ==
  /\ r # None
  /\ Len(r.pages) = 2
  /\ RunPageSize(r) >= 1
  /\ \E i \in DOMAIN r.pages[1] : r.tables[2] = Without(r.tables[1], r.pages[1][i]._id)
  /\ r.tables[2] # r.tables[1]
  /\ Len(RunSequence(r, r.tables[2])) >= RunPageSize(r)

\* C16: when a clip of page 1 is deleted between the page-1 and the page-2
\* request, the clip that moved up to the last position of the first page
\* window, which existed and matched at both requests, is in neither page.
C16_DeleteBetweenPagesSkips ==
  DeletedBetweenPages(run) =>
    LET skipped == RunSequence(run, run.tables[2])[RunPageSize(run)]
    IN /\ InSeq(skipped, RunSequence(run, run.tables[1]))
       /\ ~InSeq(skipped, run.pages[1])
       /\ ~InSeq(skipped, run.pages[2])

\* a clips list run of page size 1 whose first page was deleted before the
\* second request
C16_Witness ==
  /\ DeletedBetweenPages(run)
  /\ run.op = "list"
  /\ run.isDone

\* between the run's first and second request exactly one clip was created,
\* it belongs to the run's caller and heads the sequence of the second
\* request, and page 1 was a full page
InsertedBetweenPages(r) ==
  /\ r # None
  /\ Len(r.pages) = 2
  /\ RunPageSize(r) >= 1
  /\ Len(r.pages[1]) = RunPageSize(r)
  /\ Len(r.tables[2]) = Len(r.tables[1]) + 1
  /\ SubSeq(r.tables[2], 1, Len(r.tables[1])) = r.tables[1]
  /\ LET new == r.tables[2][Len(r.tables[2])]
     IN /\ new.userId = r.userId
        /\ RunSequence(r, r.tables[2]) = <<new>> \o RunSequence(r, r.tables[1])

\* C28: when the caller's finalizeUpload creates a clip, the newest of the
\* sequence, between the page-1 and the page-2 request of a run, page 2
\* begins with the clip page 1 ended with: that clip, which existed before
\* the upload, is returned twice.
C28_InsertBetweenPagesRepeats ==
  InsertedBetweenPages(run) =>
    LET last == run.pages[1][Len(run.pages[1])]
    IN /\ run.pages[2] # <<>>
       /\ run.pages[2][1] = last
       /\ InSeq(last, run.tables[1])

\* a clips list run of page size 1 over two clips of the caller, who uploaded
\* a third between the two requests
C28_Witness ==
  /\ InsertedBetweenPages(run)
  /\ run.op = "list"
  /\ run.pages[2] = run.pages[1]
  /\ ~run.isDone

-----------------------------------------------------------------------------
(* Properties of tokenize (SpecTokens)                                      *)

AsciiLetters == Range(LowerAlpha) \cup Range(UpperAlpha)

\* letters as the word is ordinarily read: those of any alphabet
AnyLetters == AsciiLetters \cup {"é"}

AsciiWord(c) == c \in AsciiLetters \cup Range(DigitChars) \cup {"_"}

AnyWord(c) == c \in AnyLetters \cup Range(DigitChars) \cup {"_"}

\* the maximal runs of the characters Word accepts in the lower-cased text,
\* from left to right
MaximalRuns(text, Word(_)) ==
  LET low == toLowerCase(text)
      starts == {i \in DOMAIN low : Word(low[i]) /\ (i = 1 \/ ~Word(low[i - 1]))}
      endOf(i) == CHOOSE j \in i..Len(low) :
                    /\ \A k \in i..j : Word(low[k])
                    /\ (j = Len(low) \/ ~Word(low[j + 1]))
      nth(k) == CHOOSE i \in starts : Cardinality({j \in starts : j < i}) = k - 1
  IN [k \in 1..Cardinality(starts) |-> SubSeq(low, nth(k), endOf(nth(k)))]

\* what the claim says of tokens whatever the reading of "letter"
TokensWellFormed(text, out) ==
  /\ \A k \in DOMAIN out :
       /\ Len(out[k]) > 0
       /\ \A i \in DOMAIN out[k] :
            /\ out[k][i] \notin Range(UpperAlpha)
            /\ out[k][i] \notin {" ", "\t", "\n", "-"}
  /\ (\A i \in DOMAIN text : text[i] \in {"-"}) => out = <<>>
  /\ tokenize(join(out)) = out

\* C30 as stated: tokenize returns the maximal runs of letters, digits and
\* underscores of the lower-cased text, a letter being a letter of any
\* alphabet; tokens are non-empty and free of upper case, white space and
\* punctuation; empty or all-punctuation text gives no token; tokenizing the
\* space-joined output gives the output again.
C30_TokenizerAsStated ==
  resp.op = "tokenize" =>
    /\ resp.out = MaximalRuns(resp.args.text, AnyWord)
    /\ TokensWellFormed(resp.args.text, resp.out)

\* C30: tokenize returns the maximal runs of the characters A-Z, a-z, 0-9 and
\* underscore of the lower-cased text, from left to right, every other
\* character, a letter outside A-Z and a-z included, separating tokens;
\* tokens are non-empty and free of upper case, white space and punctuation;
\* empty or all-punctuation text gives no token; tokenizing the space-joined
\* output gives the output again.
C30_Tokenizer ==
  resp.op = "tokenize" =>
    /\ resp.out = MaximalRuns(resp.args.text, AsciiWord)
    /\ TokensWellFormed(resp.args.text, resp.out)

\* a text with an upper-case letter, a punctuation mark and white space that
\* gives two tokens
C30_Witness ==
  /\ resp.op = "tokenize"
  /\ resp.args.text = <<"B", "-", " ", "a">>
  /\ resp.out = <<<<"b">>, <<"a">>>>

-----------------------------------------------------------------------------
(* Properties of the upload protocol (SpecUpload)                           *)

\* requestUpload handed this key to this caller
IssuedTo(userId, objectKey) ==
  [userId |-> userId, objectKey |-> objectKey] \in issued

\* C21: every clip record carries an object key that requestUpload issued to
\* the clip's owner and under which the object store holds bytes.
C21_ClipFollowsUpload ==
  \A c \in Range(clips) :
    IssuedTo(c.userId, c.objectKey) /\ c.objectKey \in objects

\* a step of a handler: the client's PUT is the only step that changes the
\* object store
HandlerStep == objects' = objects

MaxUploadBytes == 500 * 1024 * 1024

\* C22: requestUpload fails when sizeBytes exceeds 500 MB or contentType is
\* not allow-listed, finalizeUpload fails when bytes exceeds 500 MB; each such
\* failure leaves clips, sessions and the issued keys as they were; and no
\* requestUpload, failed or not, changes the clips.
C22_UploadValidation ==
  [][HandlerStep =>
      /\ (resp'.op = "requestUpload" /\ resp' # resp) =>
            /\ (\/ resp'.args.sizeBytes > MaxUploadBytes
                \/ resp'.args.contentType \notin ALLOWED_MIME_TYPES)
                 => /\ ~resp'.ok
                    /\ UNCHANGED <<clips, sessions, nextClipId, issued>>
            /\ UNCHANGED <<clips, nextClipId>>
      /\ (resp'.op = "finalizeUpload" /\ resp' # resp
            /\ resp'.args.bytes > MaxUploadBytes)
            => /\ ~resp'.ok
               /\ UNCHANGED <<clips, sessions, nextClipId, issued>>]_vars

\* a requestUpload for a disallowed content type was refused while the store
\* held a clip and a key was outstanding
C22_Witness ==
  /\ resp.op = "requestUpload"
  /\ ~resp.ok
  /\ resp.args.sizeBytes <= MaxUploadBytes
  /\ resp.args.contentType \notin ALLOWED_MIME_TYPES
  /\ clips # <<>>
  /\ issued # {}

\* C31: getPlaybackUrl hands out a URL only for a key that requestUpload
\* issued to no owner other than the caller, and is refused with the
\* not-found-or-denied error when the caller owns no clip of that key.
C31_PlaybackOwnerOnly ==
  resp.op = "getPlaybackUrl" =>
    /\ resp.ok =>
         \A i \in issued :
           i.objectKey = resp.args.objectKey => i.userId = resp.userId
    /\ (\A c \in Range(clips) :
          ~(c.userId = resp.userId /\ c.objectKey = resp.args.objectKey))
         => (~resp.ok /\ resp.error = ClipDenied)

-----------------------------------------------------------------------------
(* Properties of updateMeta over the optional fields (SpecMeta)             *)

ClearableFields == {"angle", "apparatus", "sessionId"}

\* C32: in every step, a clip that is in the store before and after and had
\* its angle, apparatus or sessionId set still has that field set; the value
\* may differ.
C32_OptionalNeverCleared ==
  [][\A c \in Range(clips) : \A d \in Range(clips') :
       c._id = d._id =>
         \A f \in ClearableFields : c[f] # None => d[f] # None]_vars

\* an updateMeta that supplied nothing succeeded on a clip whose angle,
\* apparatus and sessionId are set, the session having been deleted since
C32_Witness ==
  /\ resp.op = "updateMeta" /\ resp.ok
  /\ Supplied(resp.args) = {}
  /\ sessions = <<>>
  /\ LET clip == DbGet(clips, resp.args.id)[1]
     IN clip.angle = Some(side) /\ clip.apparatus = Some(rings)
        /\ clip.sessionId = Some(1)

-----------------------------------------------------------------------------
(* Properties of two overlapping updateMeta calls (SpecOverlap)             *)

\* the call on connection k has returned success
Succeeded(k) == inflight[k] # None /\ inflight[k][1].phase = "done"

\* the value a call supplies for a field
SuppliedValue(args, f) == IF f = "tags" THEN args.tags[1] ELSE args[f]

\* both calls have returned success and named the same clip
BothSucceeded ==
  /\ Succeeded(1) /\ Succeeded(2)
  /\ inflight[1][1].args.id = inflight[2][1].args.id

\* C33: when two updateMeta calls on one clip have both succeeded, however
\* their steps were interleaved, the clip carries for every field only one of
\* them supplied the value of that call, for every field both supplied the
\* value of one of the two, and for every other field the value it had.
C33_NoLostUpdate ==
  BothSucceeded =>
    LET a == inflight[1][1].args
        b == inflight[2][1].args
        clip == DbGet(clips, a.id)[1]
    IN \A f \in MetaFields :
         IF f \in Supplied(a) \ Supplied(b) THEN clip[f] = SuppliedValue(a, f)
         ELSE IF f \in Supplied(b) \ Supplied(a) THEN clip[f] = SuppliedValue(b, f)
         ELSE IF f \in Supplied(a) \cap Supplied(b)
           THEN clip[f] \in {SuppliedValue(a, f), SuppliedValue(b, f)}
         ELSE clip[f] = inflight[1][1].clip[1][f]

\* two calls with disjoint field sets, each of which read the clip before the
\* other wrote it, have both succeeded
C33_Witness ==
  /\ BothSucceeded
  /\ inflight[1][1].clip = inflight[2][1].clip
  /\ Supplied(inflight[1][1].args) = {"tags"}
  /\ Supplied(inflight[2][1].args) = {"favorite", "sessionId"}
  /\ DbGet(clips, inflight[1][1].args.id)[1].tags = <<tagA>>
  /\ DbGet(clips, inflight[1][1].args.id)[1].favorite = Some(TRUE)

=============================================================================
